---- MODULE Spec2Model ----
(***************************************************************************)
(* Model of the IaC testing framework's policy-compliance checker          *)
(* (policy_compliance/compliance_checker.py), static-analysis result       *)
(* aggregation (static_analysis/static_checker.py) and command-line runs   *)
(* (comprehensive_runner.py, cli.py, ci_cd/ci_integration.py).             *)
(*                                                                         *)
(* Python dictionaries are records, lists are sequences, None is the       *)
(* value None.  A resource address "type.name" is the pair <<type, name>>. *)
(* The float passed/total*100 is kept as the exact fraction [num, den].    *)
(***************************************************************************)
EXTENDS Integers, Sequences, FiniteSets, TLC

\* ------------------------------------------------------------------ bounds
MaxPolicies == 2
MaxRules == 2
MaxResources == 2
MaxCount == 1
MaxIssues == 1
MaxChecks == 2
MaxAnalyses == 2
\* Files in a policies directory; items in their 'policies' lists together.
MaxFiles == 2
MaxEntries == 2

\* ------------------------------------------------------------ value domains
None == "<None>"

ResourceTypes == {"storage_bucket", "vm"}
ResourceNames == {"b1"}
PropertyNames == {None, "encryption"}
RequiredFlags == {TRUE, FALSE}
PolicyNames == <<"encryption", "tagging", "network", "backup">>

\* Python truthiness of the value rule.get('property') returns.
Truthy(v) == v \notin {None, ""}

\* A rule of a policy file: rule.get('property') and the truth value of
\* rule.get('required') (an absent key reads as None, which is false).
Rules == [property : PropertyNames, required : RequiredFlags]

SeqsUpTo(S, n) == UNION {[1..k -> S] : k \in 0..n}

\* A resource as _parse_terraform_files builds it from one header match.
Resource(t, n) == [type |-> t, name |-> n, address |-> <<t, n>>]

\* A .tf file that cannot be read (open or read raises).
Unreadable == [readable |-> FALSE]

\* A .tf file with its resource headers (resource "type" "name" {), in the
\* order re.findall meets them.
Readable(headers) == [readable |-> TRUE, headers |-> headers]

\* The .tf files of a target directory: unreadable, or with at most
\* MaxResources headers.
TfFiles ==
    {Unreadable} \cup {Readable(h) : h \in SeqsUpTo(ResourceTypes \X ResourceNames, MaxResources)}

\* A target directory (its .tf files in the order os.walk meets them) that
\* holds the headers in one readable file, or no file for no header.
OneFile(headers) == IF headers = <<>> THEN <<>> ELSE <<Readable(headers)>>

\* The target directories of check_compliance.
TerraformDirs ==
    {OneFile(h) : h \in SeqsUpTo(ResourceTypes \X ResourceNames, MaxResources)}

\* What the regex scan of a directory can return: any list of headers.
ResourceLists ==
    SeqsUpTo({Resource(t, n) : t \in ResourceTypes, n \in ResourceNames}, MaxResources)

\* A policy of a policy file with at most n rules.
PolicyConfigs(n) ==
    [resource_types : {{"storage_bucket"}, ResourceTypes}, rules : SeqsUpTo(Rules, n)]

\* The tables of exactly k policies that hold at most n rules together.
RECURSIVE TablesOf(_, _)
TablesOf(k, n) ==
    IF k = 0 THEN {<<>>}
    ELSE UNION {{<<p>> \o t : t \in TablesOf(k - 1, n - Len(p.rules))} :
                    p \in PolicyConfigs(n)}

\* The policy table after construction: an insertion-ordered dict keyed by
\* policy name (the i-th policy loaded is named PolicyNames[i]), every
\* policy with its resource_types and its rules.
Named(table) ==
    [i \in DOMAIN table |->
        [name |-> PolicyNames[i], resource_types |-> table[i].resource_types,
         rules |-> table[i].rules]]

PolicyTables == {Named(table) : table \in UNION {TablesOf(k, MaxRules) : k \in 0..MaxPolicies}}

\* ------------------------------------------------- the policies directory
\* policy.get('name') of an item of a 'policies' list; None is an absent name.
LoadedNames == {None, "encryption", "tagging"}

\* An item of a 'policies' list that is no mapping: policy.get raises.
ScalarEntry == [scalar |-> TRUE]

PolicyEntries ==
    [name : LoadedNames \ {None}, resource_types : {{"storage_bucket"}, ResourceTypes},
     rules : {<<>>}]
        \cup {[name |-> None, resource_types |-> ResourceTypes, rules |-> <<>>], ScalarEntry}

\* What yaml.safe_load or json.load makes of a file: it raises, or returns a
\* document without 'policies' (or a falsy one), or one with a 'policies' list.
Malformed == [kind |-> "malformed"]
OtherDoc == [kind |-> "other"]
PolicyDoc(entries) == [kind |-> "policies", policies |-> entries]

\* The files with at most n items in their 'policies' list.
PolicyFiles(n) ==
    [ext : {"yml", "json", "txt"},
     content : {Malformed, OtherDoc}
                   \cup {PolicyDoc(entries) : entries \in SeqsUpTo(PolicyEntries, n)}]

EntriesOf(file) ==
    IF file.content.kind = "policies" THEN Len(file.content.policies) ELSE 0

\* ------------------------------------------ external tools (subprocess.run)
\* What a tool wrote on stdout: nothing, text that is no JSON, or a document.
EmptyOut == [text |-> "empty"]
GarbageOut == [text |-> "garbage"]
JsonOut(d) == [text |-> "json", doc |-> d]

\* How an invocation ends: the binary is missing (FileNotFoundError), the
\* timeout expires (TimeoutExpired), another exception, or the process exits.
NotFound == [kind |-> "not_found"]
TimedOut == [kind |-> "timeout"]
Raised == [kind |-> "exception"]
Exited(rc, out) == [kind |-> "exit", returncode |-> rc, stdout |-> out]

\* terraform validate -json: {valid, error_count, warning_count}.
ValidateDocs == [valid : BOOLEAN, error_count : 0..MaxCount, warning_count : 0..MaxCount]
ValidateProcs ==
    {NotFound, TimedOut, Raised, Exited(1, EmptyOut)}
        \cup {Exited(0, o) : o \in {EmptyOut, GarbageOut} \cup {JsonOut(d) : d \in ValidateDocs}}

\* tflint --format=json: {issues: [...]}.
TflintDocs == [issues : SeqsUpTo({"issue"}, MaxIssues)]
TflintProcs ==
    {NotFound, TimedOut, Raised, Exited(1, EmptyOut)}
        \cup {Exited(0, o) : o \in {EmptyOut, GarbageOut} \cup {JsonOut(d) : d \in TflintDocs}}

\* checkov --output json; a check is kept as the value of its 'severity'
\* key.  The exit code is not read.
Severities == {"CRITICAL", "High", "medium", "LOW", "UNKNOWN", None}

\* One framework's results {failed_checks, passed_checks}, at most MaxChecks
\* checks together.
CheckovResults ==
    UNION {[failed_checks : [1..k -> Severities],
            passed_checks : SeqsUpTo({"CRITICAL"}, MaxChecks - k)] : k \in 0..MaxChecks}

\* The results of a second framework in the multiple-results format.
OtherFramework == [failed_checks |-> <<"CRITICAL">>, passed_checks |-> <<>>]

\* checkov_output: "results" is a dict (single result), a list of dicts
\* (multiple results), an empty list, or absent.
CheckovDocs ==
    {[kind |-> "dict", results |-> r] : r \in CheckovResults}
        \cup {[kind |-> "list", results |-> <<r, OtherFramework>>] : r \in CheckovResults}
        \cup {[kind |-> "list", results |-> <<>>], [kind |-> "absent"]}
CheckovProcs ==
    {NotFound, TimedOut, Raised}
        \cup {Exited(0, o) : o \in {EmptyOut, GarbageOut} \cup {JsonOut(d) : d \in CheckovDocs}}

\* A target directory and what the three tools do when run on it.
Environments ==
    {[dir_exists |-> FALSE], [dir_exists |-> TRUE, terraform_files |-> 0]}
        \cup [dir_exists : {TRUE}, terraform_files : {1}, validate : ValidateProcs,
              tflint : TflintProcs, checkov : CheckovProcs]

\* ------------------------------------------------------------------- state
VARIABLES
    policies,              \* ComplianceChecker.policies
    terraform_resources,   \* the resources parsed by the last check_compliance
    report,                \* the value the last check_compliance returned
    environment,           \* the directory analysed and its tools' behaviour
    analysis,              \* the value the last analyze_terraform_files returned
    results,               \* StaticChecker.results
    policies_dir,          \* ComplianceChecker.policies_dir: the directory's content
    terraform_dir,         \* the content of the directory last given to check_compliance
    tool_state,            \* per tool: NOT_STARTED, RUNNING or its terminal status
    started,               \* per tool: how often its subprocess was started
    pc,                    \* the position of the running call
    args,                  \* the command line of the running process
    combined,              \* the value the last run_comprehensive_analysis returned
    exit_code,             \* the exit status of the command-line process
    ci_output,             \* the annotations the CI integration has printed
    junit_xml,             \* the content of reports/junit_results.xml
    cloud,                 \* what terraform and the AWS API do in the test environment
    terraform_log,         \* the terraform commands DynamicTester has run
    dynamic                \* the value the last run_dynamic_testing returned

complianceVars == <<policies, policies_dir, terraform_dir, terraform_resources, report>>
staticVars == <<environment, analysis, results, tool_state, started>>
runnerVars == <<args, combined, exit_code, ci_output, junit_xml>>
dynamicVars == <<cloud, terraform_log, dynamic>>

vars == <<complianceVars, staticVars, runnerVars, dynamicVars, pc>>

NoReport == [status |-> "none"]

\* The None that _check_rule_violation returns instead of a Violation.
NoViolation == [none |-> TRUE]

\* ------------------------------------------------- compliance_checker.py
\* Variant of _check_rule_violation that reports the rules not marked required.
_check_rule_violation_inverted(resource, rule, policy_name) ==
    IF ~Truthy(rule.property) THEN NoViolation
    ELSE IF ~rule.required
         THEN [resource |-> resource.address,
               resource_type |-> resource.type,
               rule |-> rule.property,
               policy |-> policy_name,
               severity |-> "MEDIUM"]
         ELSE NoViolation

\* _check_rule_violation: a Violation record, or None (NoViolation).
_check_rule_violation(resource, rule, policy_name) ==
    IF ~Truthy(rule.property) THEN NoViolation
    ELSE IF rule.required
         THEN [resource |-> resource.address,
               resource_type |-> resource.type,
               rule |-> rule.property,
               policy |-> policy_name,
               severity |-> "MEDIUM"]
         ELSE NoViolation

\* Variant of the relevant_resources filter that keeps every resource.
SelectResources_all(resources, resource_types) == resources

RECURSIVE SelectResources(_, _)
SelectResources(resources, resource_types) ==
    IF resources = <<>> THEN <<>>
    ELSE IF Head(resources).type \in resource_types
         THEN <<Head(resources)>> \o SelectResources(Tail(resources), resource_types)
         ELSE SelectResources(Tail(resources), resource_types)

\* Variant of the inner loop that stops at a resource's first violation.
RECURSIVE RuleViolations_break(_, _, _)
RuleViolations_break(resource, rules, policy_name) ==
    IF rules = <<>> THEN <<>>
    ELSE LET violation == _check_rule_violation(resource, Head(rules), policy_name)
         IN  IF violation # NoViolation THEN <<violation>>
             ELSE RuleViolations_break(resource, Tail(rules), policy_name)

\* The inner loop of _check_policy_compliance: one resource against the rules.
RECURSIVE RuleViolations(_, _, _)
RuleViolations(resource, rules, policy_name) ==
    IF rules = <<>> THEN <<>>
    ELSE LET violation == _check_rule_violation(resource, Head(rules), policy_name)
             rest == RuleViolations(resource, Tail(rules), policy_name)
         IN  IF violation # NoViolation THEN <<violation>> \o rest ELSE rest

\* The outer loop of _check_policy_compliance.
RECURSIVE ResourceViolations(_, _, _)
ResourceViolations(relevant, rules, policy_name) ==
    IF relevant = <<>> THEN <<>>
    ELSE RuleViolations(Head(relevant), rules, policy_name)
             \o ResourceViolations(Tail(relevant), rules, policy_name)

\* Variants of PolicyStatus: a third status value; an off-by-one threshold.
PolicyStatus_third(violations) ==
    IF violations = <<>> THEN "PASSED"
    ELSE IF Len(violations) = 1 THEN "FAILED" ELSE "ERROR"

PolicyStatus_offbyone(violations) == IF Len(violations) <= 1 THEN "PASSED" ELSE "FAILED"

PolicyStatus(violations) == IF violations = <<>> THEN "PASSED" ELSE "FAILED"

_check_policy_compliance(policy_name, policy_config, resources) ==
    LET relevant_resources == SelectResources(resources, policy_config.resource_types)
        violations == ResourceViolations(relevant_resources, policy_config.rules, policy_name)
    IN  [policy_name |-> policy_name,
         status |-> PolicyStatus(violations),
         applicable_resources |-> Len(relevant_resources),
         violations |-> violations,
         violation_count |-> Len(violations)]

CountStatus(rs, s) == Cardinality({i \in DOMAIN rs : rs[i].status = s})

RECURSIVE Gcd(_, _)
Gcd(a, b) == IF b = 0 THEN a ELSE Gcd(b, a % b)

\* The exact value of a / b as a reduced fraction (b > 0).
Fraction(a, b) == [num |-> a \div Gcd(a, b), den |-> b \div Gcd(a, b)]

\* Variant of the score with floor division (passed // total) * 100.
ComplianceScore_floordiv(passed_policies, total) ==
    IF total # 0 THEN Fraction((passed_policies \div total) * 100, 1) ELSE Fraction(0, 1)

\* (passed_policies / len(self.policies)) * 100 if self.policies else 0
ComplianceScore(passed_policies, total) ==
    IF total # 0 THEN Fraction(passed_policies * 100, total) ELSE Fraction(0, 1)

\* Variant of overall_status that tolerates one failed policy.
OverallCompliance_tolerant(failed_policies) ==
    IF failed_policies <= 1 THEN "PASSED" ELSE "FAILED"

OverallCompliance(failed_policies) == IF failed_policies = 0 THEN "PASSED" ELSE "FAILED"

\* policies[policy_name] = policy on an insertion-ordered dict: a new key is
\* appended, an existing key keeps its place and takes the new value.
Put(table, policy) ==
    IF \E i \in DOMAIN table : table[i].name = policy.name
    THEN [i \in DOMAIN table |->
             IF table[i].name = policy.name THEN policy ELSE table[i]]
    ELSE Append(table, policy)

\* for policy in policy_data['policies']: the table so far, and whether an
\* exception ended the loop.
RECURSIVE LoadEntries(_, _)
LoadEntries(table, entries) ==
    IF entries = <<>> THEN [policies |-> table, error |-> FALSE]
    ELSE LET policy == Head(entries)
         IN  IF "name" \notin DOMAIN policy
             THEN [policies |-> table, error |-> TRUE]
             ELSE LoadEntries(IF Truthy(policy.name) THEN Put(table, policy) ELSE table,
                              Tail(entries))

\* The body of the loop over os.listdir for one file.
LoadFile(table, file) ==
    IF file.ext \notin {"yml", "yaml", "json"}
    THEN [policies |-> table, error |-> FALSE]
    ELSE CASE file.content.kind = "malformed" -> [policies |-> table, error |-> TRUE]
           [] file.content.kind = "other" -> [policies |-> table, error |-> FALSE]
           [] file.content.kind = "policies" -> LoadEntries(table, file.content.policies)

\* The loop over os.listdir; the first exception ends it.
RECURSIVE LoadFiles(_, _)
LoadFiles(table, files) ==
    IF files = <<>> THEN [policies |-> table, error |-> FALSE]
    ELSE LET loaded == LoadFile(table, Head(files))
         IN  IF loaded.error THEN loaded ELSE LoadFiles(loaded.policies, Tail(files))

\* Variant of _load_policies without the try/except around the loop: the
\* exception leaves the constructor, self.policies is never assigned.
_load_policies_uncaught(dir) ==
    IF ~dir.exists THEN [policies |-> <<>>, raised |-> FALSE]
    ELSE LET loaded == LoadFiles(<<>>, dir.files)
         IN  [policies |-> IF loaded.error THEN <<>> ELSE loaded.policies,
              raised |-> loaded.error]

\* _load_policies: the table returned, and whether an exception left the call.
_load_policies(dir) ==
    IF ~dir.exists THEN [policies |-> <<>>, raised |-> FALSE]
    ELSE [policies |-> LoadFiles(<<>>, dir.files).policies, raised |-> FALSE]

\* The part of check_compliance after its two early returns.
Evaluate(pols, resources) ==
    LET compliance_results ==
            [i \in 1..Len(pols) |->
                _check_policy_compliance(pols[i].name, pols[i], resources)]
        passed_policies == CountStatus(compliance_results, "PASSED")
        failed_policies == CountStatus(compliance_results, "FAILED")
    IN  [status |-> "success",
         total_policies |-> Len(pols),
         passed_policies |-> passed_policies,
         failed_policies |-> failed_policies,
         results |-> compliance_results,
         summary |-> [compliance_score |-> ComplianceScore(passed_policies, Len(pols)),
                      overall_status |-> OverallCompliance(failed_policies)]]

\* The resources of one file: one per header matched by re.findall; an
\* exception on open or read is caught and the file gives nothing.
ParseFile(file) ==
    IF file.readable
    THEN [i \in DOMAIN file.headers |-> Resource(file.headers[i][1], file.headers[i][2])]
    ELSE <<>>

\* Variant of _parse_terraform_files without the inner try/except: the
\* first file that cannot be read ends the walk.
RECURSIVE _parse_terraform_files_abort(_)
_parse_terraform_files_abort(dir) ==
    IF dir = <<>> \/ ~Head(dir).readable THEN <<>>
    ELSE ParseFile(Head(dir)) \o _parse_terraform_files_abort(Tail(dir))

\* _parse_terraform_files: the loop over the .tf files of os.walk.
RECURSIVE _parse_terraform_files(_)
_parse_terraform_files(dir) ==
    IF dir = <<>> THEN <<>>
    ELSE ParseFile(Head(dir)) \o _parse_terraform_files(Tail(dir))

\* Variant of check_compliance that parses the directory before it looks at
\* the policies.
check_compliance_parsefirst(pols, dir) ==
    LET resources == _parse_terraform_files(dir)
    IN  IF resources = <<>>
        THEN [report |-> [status |-> "error",
                          error_message |-> "No Terraform resources found",
                          results |-> <<>>],
              terraform_resources |-> resources]
        ELSE IF pols = <<>>
        THEN [report |-> [status |-> "error", error_message |-> "No policies loaded",
                          results |-> <<>>],
              terraform_resources |-> resources]
        ELSE [report |-> Evaluate(pols, resources), terraform_resources |-> resources]

\* check_compliance(terraform_dir): the value returned, and the resources
\* parsed on the way (none when the call returns before parsing).
check_compliance(pols, dir) ==
    IF pols = <<>>
    THEN [report |-> [status |-> "error", error_message |-> "No policies loaded",
                      results |-> <<>>],
          terraform_resources |-> <<>>]
    ELSE LET resources == _parse_terraform_files(dir)
         IN  IF resources = <<>>
             THEN [report |-> [status |-> "error",
                               error_message |-> "No Terraform resources found",
                               results |-> <<>>],
                   terraform_resources |-> resources]
             ELSE [report |-> Evaluate(pols, resources), terraform_resources |-> resources]

\* ----------------------------------------------------- static_checker.py
\* dict.get(key, default)
Get(d, key, default) == IF key \in DOMAIN d THEN d[key] ELSE default

run_tflint(proc) ==
    LET failed(status) ==
            [tool |-> "tflint", status |-> status, issues |-> <<>>, total_issues |-> 0]
        success(issues) ==
            [tool |-> "tflint", status |-> "success", issues |-> issues,
             total_issues |-> Len(issues)]
    IN  CASE proc.kind = "timeout" -> failed("timeout")
          [] proc.kind = "not_found" -> failed("not_found")
          [] proc.kind = "exception" -> failed("error")
          [] proc.kind = "exit" ->
                IF proc.returncode = 0
                THEN CASE proc.stdout.text = "empty" -> success(<<>>)
                       [] proc.stdout.text = "garbage" -> failed("error")
                       [] proc.stdout.text = "json" -> success(proc.stdout.doc.issues)
                ELSE failed("error")

\* str.lower() on the severity strings a check can carry.
Lower(s) ==
    CASE s = "CRITICAL" -> "critical"
      [] s = "High" -> "high"
      [] s = "medium" -> "medium"
      [] s = "LOW" -> "low"
      [] s = "UNKNOWN" -> "unknown"

\* Variant of the classification that compares the severity as written.
SeverityBucket_casesensitive(severity) ==
    IF Truthy(severity)
    THEN IF severity \in {"critical", "high", "medium", "low"}
         THEN severity
         ELSE "medium"
    ELSE "medium"

SeverityBucket(severity) ==
    IF Truthy(severity)
    THEN IF Lower(severity) \in {"critical", "high", "medium", "low"}
         THEN Lower(severity)
         ELSE "medium"
    ELSE "medium"

\* The severity_counts loop of run_checkov.
RECURSIVE CountSeverities(_, _)
CountSeverities(failed_checks, severity_counts) ==
    IF failed_checks = <<>> THEN severity_counts
    ELSE LET b == SeverityBucket(Head(failed_checks))
         IN  CountSeverities(Tail(failed_checks),
                             [severity_counts EXCEPT ![b] = severity_counts[b] + 1])

NoChecks == [failed_checks |-> <<>>, passed_checks |-> <<>>]

\* The extraction of failed_checks and passed_checks from checkov_output.
ExtractChecks(checkov_output) ==
    IF checkov_output.kind = "dict" THEN checkov_output.results
    ELSE IF checkov_output.kind = "list" /\ Len(checkov_output.results) > 0
         THEN checkov_output.results[1]
         ELSE NoChecks

\* Variant of run_checkov without the json.JSONDecodeError handler: output
\* that is no JSON falls through to the generic handler.
run_checkov_generic(proc) ==
    LET failed(status) ==
            [tool |-> "checkov", status |-> status, failed_checks |-> 0,
             passed_checks |-> 0, total_checks |-> 0]
        success(failed_checks, passed_checks) ==
            [tool |-> "checkov", status |-> "success",
             failed_checks |-> Len(failed_checks),
             passed_checks |-> Len(passed_checks),
             total_checks |-> Len(failed_checks) + Len(passed_checks),
             results |-> [failed |-> failed_checks, passed |-> passed_checks],
             summary |-> CountSeverities(failed_checks,
                            [critical |-> 0, high |-> 0, medium |-> 0, low |-> 0])]
    IN  CASE proc.kind = "timeout" -> failed("timeout")
          [] proc.kind = "not_found" -> failed("not_found")
          [] proc.kind = "exception" -> failed("error")
          [] proc.kind = "exit" ->
                CASE proc.stdout.text = "empty" -> success(<<>>, <<>>)
                  [] proc.stdout.text = "garbage" -> failed("error")
                  [] proc.stdout.text = "json" ->
                        success(ExtractChecks(proc.stdout.doc).failed_checks,
                                ExtractChecks(proc.stdout.doc).passed_checks)

run_checkov(proc) ==
    LET failed(status) ==
            [tool |-> "checkov", status |-> status, failed_checks |-> 0,
             passed_checks |-> 0, total_checks |-> 0]
        success(failed_checks, passed_checks) ==
            [tool |-> "checkov", status |-> "success",
             failed_checks |-> Len(failed_checks),
             passed_checks |-> Len(passed_checks),
             total_checks |-> Len(failed_checks) + Len(passed_checks),
             results |-> [failed |-> failed_checks, passed |-> passed_checks],
             summary |-> CountSeverities(failed_checks,
                            [critical |-> 0, high |-> 0, medium |-> 0, low |-> 0])]
    IN  CASE proc.kind = "timeout" -> failed("timeout")
          [] proc.kind = "not_found" -> failed("not_found")
          [] proc.kind = "exception" -> failed("error")
          [] proc.kind = "exit" ->
                CASE proc.stdout.text = "empty" -> success(<<>>, <<>>)
                  [] proc.stdout.text = "garbage" -> failed("parse_error")
                  [] proc.stdout.text = "json" ->
                        success(ExtractChecks(proc.stdout.doc).failed_checks,
                                ExtractChecks(proc.stdout.doc).passed_checks)

_run_terraform_validate(proc) ==
    LET failed(status) ==
            [tool |-> "terraform_validate", status |-> status, valid |-> FALSE,
             error_count |-> 1, warning_count |-> 0]
        success(valid, error_count, warning_count) ==
            [tool |-> "terraform_validate", status |-> "success", valid |-> valid,
             error_count |-> error_count, warning_count |-> warning_count]
    IN  CASE proc.kind = "timeout" -> failed("timeout")
          [] proc.kind = "not_found" -> failed("not_found")
          [] proc.kind = "exception" -> failed("error")
          [] proc.kind = "exit" ->
                IF proc.returncode = 0
                THEN CASE proc.stdout.text = "empty" -> success(TRUE, 0, 0)
                       [] proc.stdout.text = "garbage" -> failed("error")
                       [] proc.stdout.text = "json" ->
                             success(proc.stdout.doc.valid, proc.stdout.doc.error_count,
                                     proc.stdout.doc.warning_count)
                ELSE failed("error")

NoSummary == [critical |-> 0, high |-> 0, medium |-> 0, low |-> 0]

\* Variant of critical_tool_failures that accepts not_found from no tool.
critical_tool_failures_strict(validate_result, tflint_result, checkov_result) ==
    \/ validate_result.status \notin {"success"}
    \/ tflint_result.status \notin {"success"}
    \/ checkov_result.status \notin {"success"}

\* validate_result.get("status") not in ["success"] or the linter's or the
\* scanner's status not in ["success", "not_found"]
critical_tool_failures(validate_result, tflint_result, checkov_result) ==
    \/ validate_result.status \notin {"success"}
    \/ tflint_result.status \notin {"success", "not_found"}
    \/ checkov_result.status \notin {"success", "not_found"}

\* Variant of critical_issues that leaves the high findings out.
critical_issues_nohigh(validate_result, checkov_result) ==
    Get(validate_result, "error_count", 0)
        + Get(checkov_result, "summary", NoSummary).critical

critical_issues(validate_result, checkov_result) ==
    Get(validate_result, "error_count", 0)
        + Get(checkov_result, "summary", NoSummary).critical
        + Get(checkov_result, "summary", NoSummary).high

\* Variant of medium_issues that leaves the linter's issues out.
medium_issues_nolint(validate_result, tflint_result, checkov_result) ==
    Get(validate_result, "warning_count", 0)
        + Get(checkov_result, "summary", NoSummary).medium
        + Get(checkov_result, "summary", NoSummary).low

medium_issues(validate_result, tflint_result, checkov_result) ==
    Get(validate_result, "warning_count", 0)
        + Get(checkov_result, "summary", NoSummary).medium
        + Get(checkov_result, "summary", NoSummary).low
        + Get(tflint_result, "total_issues", 0)

\* Variant of _determine_overall_status that counts the critical issues
\* before it looks at the validation status.
_determine_overall_status_reordered(validate_result, tflint_result, checkov_result) ==
    IF critical_tool_failures(validate_result, tflint_result, checkov_result)
    THEN "TOOL_ERROR"
    ELSE IF critical_issues(validate_result, checkov_result) > 0
    THEN "CRITICAL_ISSUES"
    ELSE IF ~Get(validate_result, "valid", FALSE)
    THEN "VALIDATION_FAILED"
    ELSE IF medium_issues(validate_result, tflint_result, checkov_result) > 0
    THEN "NEEDS_ATTENTION"
    ELSE "PASSED"

_determine_overall_status(validate_result, tflint_result, checkov_result) ==
    IF critical_tool_failures(validate_result, tflint_result, checkov_result)
    THEN "TOOL_ERROR"
    ELSE IF ~Get(validate_result, "valid", FALSE)
    THEN "VALIDATION_FAILED"
    ELSE IF critical_issues(validate_result, checkov_result) > 0
    THEN "CRITICAL_ISSUES"
    ELSE IF medium_issues(validate_result, tflint_result, checkov_result) > 0
    THEN "NEEDS_ATTENTION"
    ELSE "PASSED"

\* Variant of analyze_terraform_files that treats a directory without .tf
\* files as analysed.
analyze_terraform_files_emptyok(env) ==
    IF ~env.dir_exists
    THEN [status |-> "error", error_message |-> "Directory does not exist"]
    ELSE IF env.terraform_files = 0
    THEN [status |-> "success", terraform_files_found |-> 0,
          results |-> [terraform_validate |-> _run_terraform_validate(NotFound),
                       tflint |-> run_tflint(NotFound),
                       checkov |-> run_checkov(NotFound)]]
    ELSE LET validate_result == _run_terraform_validate(env.validate)
             tflint_result == run_tflint(env.tflint)
             checkov_result == run_checkov(env.checkov)
         IN  [status |-> "success",
              terraform_files_found |-> env.terraform_files,
              results |-> [terraform_validate |-> validate_result,
                           tflint |-> tflint_result,
                           checkov |-> checkov_result],
              summary |->
                  [total_issues |->
                       Get(validate_result, "error_count", 0)
                           + Get(validate_result, "warning_count", 0)
                           + Get(tflint_result, "total_issues", 0)
                           + Get(checkov_result, "failed_checks", 0),
                   critical_issues |-> critical_issues(validate_result, checkov_result),
                   validation_passed |-> Get(validate_result, "valid", FALSE),
                   linting_issues |-> Get(tflint_result, "total_issues", 0),
                   security_issues |-> Get(checkov_result, "failed_checks", 0),
                   overall_status |->
                       _determine_overall_status(validate_result, tflint_result,
                                                 checkov_result)]]

analyze_terraform_files(env) ==
    IF ~env.dir_exists
    THEN [status |-> "error", error_message |-> "Directory does not exist"]
    ELSE IF env.terraform_files = 0
    THEN [status |-> "error", error_message |-> "No Terraform files found"]
    ELSE LET validate_result == _run_terraform_validate(env.validate)
             tflint_result == run_tflint(env.tflint)
             checkov_result == run_checkov(env.checkov)
         IN  [status |-> "success",
              terraform_files_found |-> env.terraform_files,
              results |-> [terraform_validate |-> validate_result,
                           tflint |-> tflint_result,
                           checkov |-> checkov_result],
              summary |->
                  [total_issues |->
                       Get(validate_result, "error_count", 0)
                           + Get(validate_result, "warning_count", 0)
                           + Get(tflint_result, "total_issues", 0)
                           + Get(checkov_result, "failed_checks", 0),
                   critical_issues |-> critical_issues(validate_result, checkov_result),
                   validation_passed |-> Get(validate_result, "valid", FALSE),
                   linting_issues |-> Get(tflint_result, "total_issues", 0),
                   security_issues |-> Get(checkov_result, "failed_checks", 0),
                   overall_status |->
                       _determine_overall_status(validate_result, tflint_result,
                                                 checkov_result)]]

\* Variant of get_results_summary that describes the first analysis.
get_results_summary_first(rs) ==
    IF rs = <<>> THEN [message |-> "No analysis results available"]
    ELSE LET latest_result == rs[1]
         IN  [total_analyses |-> Len(rs),
              latest_analysis |->
                  [status |-> Get(Get(latest_result, "summary", <<>>), "overall_status", None),
                   total_issues |-> Get(Get(latest_result, "summary", <<>>), "total_issues", 0),
                   validation_passed |->
                       Get(Get(latest_result, "summary", <<>>), "validation_passed", FALSE)]]

\* get_results_summary on self.results = rs (latest_result = self.results[-1]).
get_results_summary(rs) ==
    IF rs = <<>> THEN [message |-> "No analysis results available"]
    ELSE LET latest_result == rs[Len(rs)]
         IN  [total_analyses |-> Len(rs),
              latest_analysis |->
                  [status |-> Get(Get(latest_result, "summary", <<>>), "overall_status", None),
                   total_issues |-> Get(Get(latest_result, "summary", <<>>), "total_issues", 0),
                   validation_passed |->
                       Get(Get(latest_result, "summary", <<>>), "validation_passed", FALSE)]]

\* ------------------------------- comprehensive_runner.py, ci_integration.py
\* {} as the default of dict.get
EmptyDict == <<>>

\* dynamic_results is NoReport where the code passes None.
_calculate_overall_summary(static_results, compliance_results, dynamic_results) ==
    LET static_issues == Get(Get(static_results, "summary", EmptyDict), "total_issues", 0)
        total_policies == Get(compliance_results, "total_policies", 0)
        failed_policies == Get(compliance_results, "failed_policies", 0)
        dynamic_summary == IF dynamic_results # NoReport
                           THEN Get(dynamic_results, "summary", EmptyDict) ELSE EmptyDict
        total_checks == total_policies + (IF static_issues > 0 THEN 1 ELSE 0)
                            + Get(dynamic_summary, "total_tests", 0)
        passed_checks == Get(compliance_results, "passed_policies", 0)
                             + (IF static_issues = 0 THEN 1 ELSE 0)
                             + Get(dynamic_summary, "tests_passed", 0)
        failed_checks == failed_policies + (IF static_issues > 0 THEN 1 ELSE 0)
                             + Get(dynamic_summary, "tests_failed", 0)
    IN  [total_checks |-> total_checks,
         passed_checks |-> passed_checks,
         failed_checks |-> failed_checks,
         success_rate |-> IF total_checks > 0 THEN Fraction(passed_checks * 100, total_checks)
                          ELSE Fraction(0, 1),
         overall_status |->
             IF failed_checks = 0 THEN "PASSED"
             ELSE IF ~Get(Get(static_results, "summary", EmptyDict), "validation_passed", TRUE)
             THEN "CRITICAL_FAILURE"
             ELSE "NEEDS_ATTENTION"]

\* The dict run_comprehensive_analysis builds; dynamic_results is NoReport
\* when dynamic testing was not requested.
CombinedResults(static_results, compliance_results, dynamic_results) ==
    LET without_dynamic ==
            [analysis_type |-> IF dynamic_results # NoReport THEN "comprehensive"
                               ELSE "static_and_compliance",
             static_analysis |-> static_results,
             policy_compliance |-> compliance_results,
             summary |-> _calculate_overall_summary(static_results, compliance_results,
                                                    dynamic_results)]
    IN  IF dynamic_results # NoReport
        THEN without_dynamic @@ ("dynamic_testing" :> dynamic_results)
        ELSE without_dynamic

\* CICDIntegration.check_for_breaking_changes
check_for_breaking_changes(res) ==
    \/ /\ "policy_compliance" \in DOMAIN res
       /\ LET policy_results == Get(res.policy_compliance, "results", <<>>)
          IN  \E i \in DOMAIN policy_results :
                  /\ policy_results[i].status = "FAILED"
                  /\ \E k \in DOMAIN policy_results[i].violations :
                         policy_results[i].violations[k].severity \in {"HIGH", "CRITICAL"}
    \/ /\ "static_analysis" \in DOMAIN res
       /\ ~Get(Get(res.static_analysis, "summary", EmptyDict), "validation_passed", TRUE)

\* An annotation printed by set_error, set_warning or set_notice.
Annotation(level, message) == [level |-> level, message |-> message]

\* CICDIntegration.set_exit_code_based_on_results: what it prints, and the
\* exit status it ends the process with (0: it returns).
set_exit_code_based_on_results(res) ==
    IF check_for_breaking_changes(res)
    THEN [annotations |-> <<Annotation("error", "Critical issues found - failing CI build")>>,
          exit_code |-> 1]
    ELSE IF Get(Get(res, "summary", EmptyDict), "overall_status", "UNKNOWN") = "FAILED"
    THEN [annotations |->
              <<Annotation("warning", "Some tests failed, but no critical issues found")>>,
          exit_code |-> 0]
    ELSE [annotations |-> <<Annotation("notice", "All tests passed successfully!")>>,
          exit_code |-> 0]

\* The <testsuite> for the static analysis: one test case.
StaticSuite(static) ==
    LET suite_failures ==
            IF Get(Get(static, "summary", EmptyDict), "total_issues", 0) > 0 THEN 1 ELSE 0
    IN  [name |-> "StaticAnalysis", tests |-> 1, failures |-> suite_failures,
         testcases |-> <<[name |-> "terraform_validation", failure |-> suite_failures > 0]>>]

\* The <testsuite> for the policy compliance: one test case per PolicyResult.
PolicySuite(compliance) ==
    LET policy_results == Get(compliance, "results", <<>>)
    IN  [name |-> "PolicyCompliance",
         tests |-> Get(compliance, "total_policies", 0),
         failures |-> Get(compliance, "failed_policies", 0),
         testcases |-> [i \in DOMAIN policy_results |->
                           [name |-> policy_results[i].policy_name,
                            failure |-> policy_results[i].status = "FAILED"]]]

\* CICDIntegration._save_junit_xml: the <testsuites> element written.
_save_junit_xml(res) ==
    LET static_suites == IF "static_analysis" \in DOMAIN res
                         THEN <<StaticSuite(res.static_analysis)>> ELSE <<>>
        policy_suites == IF "policy_compliance" \in DOMAIN res
                         THEN <<PolicySuite(res.policy_compliance)>> ELSE <<>>
        total_tests == (IF static_suites # <<>> THEN static_suites[1].tests ELSE 0)
                           + (IF policy_suites # <<>> THEN policy_suites[1].tests ELSE 0)
        total_failures == (IF static_suites # <<>> THEN static_suites[1].failures ELSE 0)
                              + (IF policy_suites # <<>> THEN policy_suites[1].failures ELSE 0)
    IN  [written |-> TRUE, tests |-> total_tests, failures |-> total_failures,
         testsuites |-> static_suites \o policy_suites]

\* -------------------------------------------------------- dynamic_tester.py
\* The return codes of a terraform command (_run_terraform_command gives -1
\* for a timeout or an exception).
ReturnCodes == {0, 1, -1}

\* What the AWS calls of the runtime checks find: describe_vpcs,
\* describe_instances, list_buckets with head_bucket, and
\* describe_security_groups; "raises" is a call that raises.
VpcOutcomes == {"raises", "none", "found"}
Ec2Outcomes == {"raises", "none", "running"}
S3Outcomes == {"raises", "none", "accessible", "inaccessible"}
SgOutcomes == {"raises", "none", "closed", "open_ssh"}

\* A test environment: how each terraform command ends there, what the
\* AWS calls find, and whether resources are provisioned in it.  terraform
\* show -json prints the state of the deployment ("state"), the document {}
\* ("empty") or output that is not JSON ("garbage"), or fails ("failed");
\* show is the call of deploy_infrastructure and show_again the one of
\* _get_deployment_info.
Clouds ==
    [in_use : {TRUE}, provisioned : {FALSE},
     init : {0, 1}, plan : {0, 1}, apply : ReturnCodes,
     show : {"state", "garbage"}, show_again : {"state", "empty", "failed"},
     vpc : VpcOutcomes, ec2 : Ec2Outcomes, s3 : S3Outcomes, sg : SgOutcomes]

Test(test_name, status) == [test_name |-> test_name, status |-> status]

\* The resources _extract_resources_from_state finds in the state.
_extract_resources_from_state(show) ==
    IF show = "state" THEN <<"storage_bucket.a">> ELSE <<>>

\* Variant of deploy_infrastructure that runs every step whatever the
\* steps before it returned.
deploy_infrastructure_continue(env, c) ==
    IF ~env.dir_exists
    THEN [result |-> [status |-> "error", resources_created |-> <<>>,
                      errors |-> <<"Deployment error">>],
          log |-> <<>>]
    ELSE [result |->
              [status |-> IF c.init # 0 \/ c.plan # 0 \/ c.apply # 0 THEN "failed"
                          ELSE "success",
               resources_created |-> IF c.show \in {"state", "empty"}
                                     THEN _extract_resources_from_state(c.show)
                                     ELSE <<>>,
               errors |-> (IF c.init # 0 THEN <<"Terraform init failed">> ELSE <<>>)
                              \o (IF c.plan # 0 THEN <<"Terraform plan failed">> ELSE <<>>)
                              \o (IF c.apply # 0 THEN <<"Terraform apply failed">> ELSE <<>>)],
          log |-> <<"init", "plan", "apply", "show">>]

\* DynamicTester.deploy_infrastructure: the result dict and the terraform
\* commands run, in order.  os.chdir raises on a missing directory.
deploy_infrastructure(env, c) ==
    LET failed(message, commands) ==
            [result |-> [status |-> "failed", resources_created |-> <<>>,
                         errors |-> <<message>>],
             log |-> commands]
    IN  IF ~env.dir_exists
        THEN [result |-> [status |-> "error", resources_created |-> <<>>,
                          errors |-> <<"Deployment error">>],
              log |-> <<>>]
        ELSE IF c.init # 0 THEN failed("Terraform init failed", <<"init">>)
        ELSE IF c.plan # 0 THEN failed("Terraform plan failed", <<"init", "plan">>)
        ELSE IF c.apply # 0 THEN failed("Terraform apply failed", <<"init", "plan", "apply">>)
        ELSE [result |->
                  [status |-> "success",
                   resources_created |-> IF c.show \in {"state", "empty"}
                                         THEN _extract_resources_from_state(c.show)
                                         ELSE <<>>,
                   errors |-> <<>>],
              log |-> <<"init", "plan", "apply", "show">>]

_test_vpc_configuration(c) ==
    CASE c.vpc = "found" -> <<Test("vpc_exists", "passed"), Test("vpc_cidr_configured", "passed")>>
      [] c.vpc = "none" -> <<Test("vpc_exists", "failed")>>
      [] c.vpc = "raises" -> <<Test("vpc_configuration", "error")>>

_test_ec2_instances(c) ==
    CASE c.ec2 = "running" -> <<Test("ec2_instances_running", "passed"),
                                 Test("ec2_instance_0_state", "passed")>>
      [] c.ec2 = "none" -> <<Test("ec2_instances_running", "failed")>>
      [] c.ec2 = "raises" -> <<Test("ec2_instances", "error")>>

_test_s3_buckets(c) ==
    CASE c.s3 = "accessible" -> <<Test("s3_buckets_exist", "passed"),
                                   Test("s3_bucket_accessible", "passed")>>
      [] c.s3 = "inaccessible" -> <<Test("s3_buckets_exist", "passed"),
                                     Test("s3_bucket_accessible", "failed")>>
      [] c.s3 = "none" -> <<Test("s3_buckets_exist", "warning")>>
      [] c.s3 = "raises" -> <<Test("s3_buckets", "error")>>

_test_security_groups(c) ==
    CASE c.sg = "closed" -> <<Test("sg_ssh_not_open", "passed"), Test("sg_configured", "passed")>>
      [] c.sg = "open_ssh" -> <<Test("sg_ssh_not_open", "failed"), Test("sg_configured", "passed")>>
      [] c.sg = "none" -> <<>>
      [] c.sg = "raises" -> <<Test("security_groups", "error")>>

_test_connectivity(c) == <<Test("connectivity_placeholder", "passed")>>

\* _get_deployment_info is truthy: the directory exists and terraform show
\* printed a JSON document other than {}.
_get_deployment_info(env, c) == env.dir_exists /\ c.show_again = "state"

\* DynamicTester.run_runtime_tests: the result dict and, in order, the
\* terraform command and the AWS calls made.
run_runtime_tests(env, c) ==
    IF ~_get_deployment_info(env, c)
    THEN [result |-> [status |-> "error", total_tests |-> 0, passed_tests |-> 0,
                      failed_tests |-> 0,
                      test_results |-> <<Test("deployment_check", "failed")>>,
                      summary |-> EmptyDict],
          log |-> IF env.dir_exists THEN <<"show">> ELSE <<>>]
    ELSE LET test_results == _test_vpc_configuration(c) \o _test_ec2_instances(c)
                                 \o _test_s3_buckets(c) \o _test_security_groups(c)
                                 \o _test_connectivity(c)
             total_tests == Len(test_results)
             passed_tests == CountStatus(test_results, "passed")
             failed_tests == CountStatus(test_results, "failed")
         IN  [result |->
                  [status |-> IF failed_tests = 0 THEN "success" ELSE "partial_failure",
                   total_tests |-> total_tests,
                   passed_tests |-> passed_tests,
                   failed_tests |-> failed_tests,
                   test_results |-> test_results,
                   summary |->
                       [overall_status |-> IF failed_tests = 0 THEN "PASSED" ELSE "FAILED",
                        success_rate |-> IF total_tests > 0
                                         THEN Fraction(passed_tests * 100, total_tests)
                                         ELSE Fraction(0, 1)]],
              log |-> <<"show", "describe_vpcs", "describe_instances", "list_buckets",
                        "describe_security_groups">>]

\* ComprehensiveTestRunner.run_dynamic_testing: the results dict and the
\* commands and calls made, in order.  The call of cleanup_deployment is
\* commented out in the code: no terraform destroy is run.
run_dynamic_testing(env, c) ==
    LET deployment == deploy_infrastructure(env, c)
        runtime == run_runtime_tests(env, c)
    IN  IF deployment.result.status = "success"
        THEN [results |->
                  [deployment |-> deployment.result,
                   runtime_tests |-> runtime.result,
                   cleanup |-> [status |-> "skipped",
                                message |-> "Cleanup disabled to preserve AWS resources"],
                   summary |->
                       [overall_status |-> Get(Get(runtime.result, "summary", EmptyDict),
                                               "overall_status", "UNKNOWN"),
                        tests_passed |-> Get(runtime.result, "passed_tests", 0),
                        tests_failed |-> Get(runtime.result, "failed_tests", 0),
                        total_tests |-> Get(runtime.result, "total_tests", 0)]],
              log |-> deployment.log \o runtime.log]
        ELSE [results |->
                  [deployment |-> deployment.result,
                   runtime_tests |-> [status |-> "skipped", message |-> "Deployment failed"],
                   cleanup |-> [status |-> "skipped"],
                   summary |-> [overall_status |-> "FAILED"]],
              log |-> deployment.log]

\* ----------------------------------------------------------------- actions
NoEnvironment == [dir_exists |-> FALSE]

\* A policies directory that does not exist.
NoDirectory == [exists |-> FALSE]

Tools == {"validate", "tflint", "checkov"}

NotStarted == [t \in Tools |-> "NOT_STARTED"]

\* Nothing but the object under test exists: no static analysis has run, no
\* command-line process is running.
StaticIdle ==
    /\ analysis = NoReport
    /\ results = <<>>
    /\ tool_state = NotStarted
    /\ started = [t \in Tools |-> 0]

NoArgs == [command |-> "none"]

\* No report file has been written.
NoFile == [written |-> FALSE]

RunnerIdle ==
    /\ args = NoArgs
    /\ combined = NoReport
    /\ exit_code = 0
    /\ ci_output = <<>>
    /\ junit_xml = NoFile

\* No test environment is in use.
NoCloud == [in_use |-> FALSE]

DynamicIdle ==
    /\ cloud = NoCloud
    /\ terraform_log = <<>>
    /\ dynamic = NoReport

\* The terminal status each tool reached in a completed analysis.
ToolStates(a) ==
    [validate |-> a.results.terraform_validate.status,
     tflint |-> a.results.tflint.status,
     checkov |-> a.results.checkov.status]

\* A directory from which _load_policies builds the given table.
DirectoryOf(table) ==
    [exists |-> TRUE,
     files |-> IF table = <<>> THEN <<>>
               ELSE <<[ext |-> "yml", content |-> PolicyDoc(table)]>>]

\* A ComplianceChecker constructed on a policies directory.
Init ==
    /\ policies \in PolicyTables
    /\ policies_dir = DirectoryOf(policies)
    /\ terraform_dir = <<>>
    /\ terraform_resources = <<>>
    /\ report = NoReport
    /\ environment = NoEnvironment
    /\ StaticIdle
    /\ RunnerIdle
    /\ DynamicIdle
    /\ pc = "idle"

\* check_compliance(terraform_dir): parse the directory, evaluate, return.
CheckCompliance ==
    \E dir \in TerraformDirs :
        /\ terraform_dir' = dir
        /\ terraform_resources' = check_compliance(policies, dir).terraform_resources
        /\ report' = check_compliance(policies, dir).report
        /\ UNCHANGED <<policies, policies_dir, staticVars, runnerVars, dynamicVars, pc>>

Next == CheckCompliance

Spec == Init /\ [][Next]_vars

\* A StaticChecker (self.results = []) and a directory to analyse.
StaticInit ==
    /\ policies = <<>>
    /\ policies_dir = NoDirectory
    /\ terraform_dir = <<>>
    /\ terraform_resources = <<>>
    /\ report = NoReport
    /\ environment \in Environments
    /\ StaticIdle
    /\ RunnerIdle
    /\ DynamicIdle
    /\ pc = "idle"

\* analyze_terraform_files(terraform_dir): run the three tools, combine,
\* store the combined result in self.results and return it.
AnalyzeTerraformFiles ==
    /\ Len(results) < MaxAnalyses
    /\ analysis' = analyze_terraform_files(environment)
    /\ results' = IF analysis'.status = "success" THEN Append(results, analysis')
                  ELSE results
    /\ tool_state' = IF analysis'.status = "success" THEN ToolStates(analysis')
                     ELSE tool_state
    /\ started' = IF analysis'.status = "success"
                  THEN [t \in Tools |-> started[t] + 1]
                  ELSE started
    /\ UNCHANGED <<complianceVars, environment, runnerVars, dynamicVars, pc>>

StaticNext == AnalyzeTerraformFiles

StaticSpec == StaticInit /\ [][StaticNext]_vars

\* self.policies_dir exists and os.listdir lists the files of prefix and
\* then at most k more files that hold at most n items together.
RECURSIVE Listed(_, _, _)
Listed(prefix, k, n) ==
    \/ policies_dir = [exists |-> TRUE, files |-> prefix]
    \/ /\ k > 0
       /\ \E file \in PolicyFiles(n) :
              Listed(Append(prefix, file), k - 1, n - EntriesOf(file))

\* ------------------------- a sequence of calls on changing directories
\* The directories of a sequence of calls: missing, without .tf files, or
\* analysed by a validator that is missing, accepts or rejects and a
\* scanner that reports nothing or one failed check.
SequenceEnvironments ==
    {[dir_exists |-> FALSE], [dir_exists |-> TRUE, terraform_files |-> 0]}
        \cup [dir_exists : {TRUE}, terraform_files : {1},
              validate : {NotFound}
                  \cup {Exited(0, JsonOut([valid |-> v, error_count |-> 0,
                                           warning_count |-> 0])) : v \in BOOLEAN},
              tflint : {Exited(0, EmptyOut)},
              checkov : {Exited(0, EmptyOut)}
                  \cup {Exited(0, JsonOut([kind |-> "dict",
                                           results |-> [failed_checks |-> <<s>>,
                                                        passed_checks |-> <<>>]])) :
                            s \in {"CRITICAL", "medium"}}]

SequenceInit ==
    /\ policies = <<>>
    /\ policies_dir = NoDirectory
    /\ terraform_dir = <<>>
    /\ terraform_resources = <<>>
    /\ report = NoReport
    /\ environment = NoEnvironment
    /\ StaticIdle
    /\ RunnerIdle
    /\ DynamicIdle
    /\ pc = "idle"

\* analyze_terraform_files on any of the directories.
AnalyzeCall ==
    /\ \E env \in SequenceEnvironments :
           /\ environment' = env
           /\ analysis' = analyze_terraform_files(env)
    /\ Len(results) < MaxAnalyses \/ analysis'.status = "error"
    /\ results' = IF analysis'.status = "success" THEN Append(results, analysis')
                  ELSE results
    /\ tool_state' = IF analysis'.status = "success" THEN ToolStates(analysis')
                     ELSE tool_state
    /\ started' = IF analysis'.status = "success"
                  THEN [t \in Tools |-> started[t] + 1]
                  ELSE started
    /\ UNCHANGED <<complianceVars, runnerVars, dynamicVars, pc>>

SequenceNext == AnalyzeCall

SequenceSpec == SequenceInit /\ [][SequenceNext]_vars

\* --------------------------- one analyze_terraform_files call, step by step
\* The result of running one tool in the directory.
ToolResult(tool, env) ==
    CASE tool = "validate" -> _run_terraform_validate(env.validate)
      [] tool = "tflint" -> run_tflint(env.tflint)
      [] tool = "checkov" -> run_checkov(env.checkov)

\* Variant of NextTool that skips the remaining tools once a tool has failed.
NextTool_abort(tool, status) ==
    IF status # "success" THEN "combine"
    ELSE CASE tool = "validate" -> "tflint"
           [] tool = "tflint" -> "checkov"
           [] tool = "checkov" -> "combine"

\* The statement after a tool's blocking call has returned: the calls follow
\* each other unconditionally.
NextTool(tool, status) ==
    CASE tool = "validate" -> "tflint"
      [] tool = "tflint" -> "checkov"
      [] tool = "checkov" -> "combine"

\* A StaticChecker, a directory to analyse, and no call yet.
RunInit ==
    /\ policies = <<>>
    /\ policies_dir = NoDirectory
    /\ terraform_dir = <<>>
    /\ terraform_resources = <<>>
    /\ report = NoReport
    /\ environment \in Environments
    /\ StaticIdle
    /\ RunnerIdle
    /\ DynamicIdle
    /\ pc = "idle"

\* analyze_terraform_files is called: the directory and its .tf files are
\* looked up, and the call returns an error or goes on to the validator.
Enter ==
    /\ pc = "idle"
    /\ IF ~environment.dir_exists \/ environment.terraform_files = 0
       THEN /\ analysis' = analyze_terraform_files(environment)
            /\ pc' = "done"
       ELSE /\ analysis' = analysis
            /\ pc' = "validate"
    /\ UNCHANGED <<complianceVars, environment, results, tool_state, started, runnerVars, dynamicVars>>

\* The call reaches a tool's method: its subprocess is started and blocks.
StartTool(tool) ==
    /\ pc = tool
    /\ tool_state[tool] = "NOT_STARTED"
    /\ tool_state' = [tool_state EXCEPT ![tool] = "RUNNING"]
    /\ started' = [started EXCEPT ![tool] = @ + 1]
    /\ UNCHANGED <<complianceVars, environment, analysis, results, runnerVars, dynamicVars, pc>>

\* The tool's method returns its result dict.
EndTool(tool) ==
    /\ pc = tool
    /\ tool_state[tool] = "RUNNING"
    /\ tool_state' = [tool_state EXCEPT ![tool] = ToolResult(tool, environment).status]
    /\ pc' = NextTool(tool, tool_state'[tool])
    /\ UNCHANGED <<complianceVars, environment, analysis, results, started, runnerVars, dynamicVars>>

\* The three results are combined, stored in self.results and returned.
Combine ==
    /\ pc = "combine"
    /\ analysis' = analyze_terraform_files(environment)
    /\ results' = Append(results, analysis')
    /\ pc' = "done"
    /\ UNCHANGED <<complianceVars, environment, tool_state, started, runnerVars, dynamicVars>>

RunNext ==
    \/ Enter
    \/ \E tool \in Tools : StartTool(tool)
    \/ \E tool \in Tools : EndTool(tool)
    \/ Combine

RunSpec == RunInit /\ [][RunNext]_vars

\* A policies directory, and no ComplianceChecker yet.
LoadInit ==
    /\ policies_dir = NoDirectory \/ Listed(<<>>, MaxFiles, MaxEntries)
    /\ policies = <<>>
    /\ terraform_dir = <<>>
    /\ terraform_resources = <<>>
    /\ report = NoReport
    /\ environment = NoEnvironment
    /\ StaticIdle
    /\ RunnerIdle
    /\ DynamicIdle
    /\ pc = "new"

\* ComplianceChecker(policies_dir): self.policies = self._load_policies().
Construct ==
    /\ pc = "new"
    /\ policies' = _load_policies(policies_dir).policies
    /\ pc' = IF _load_policies(policies_dir).raised THEN "raised" ELSE "constructed"
    /\ UNCHANGED <<policies_dir, terraform_dir, terraform_resources, report,
                   staticVars, runnerVars, dynamicVars>>

LoadNext == Construct

LoadSpec == LoadInit /\ [][LoadNext]_vars

\* ------------------------------------------ a command-line run (main)
\* The command lines: the subcommands of comprehensive_runner.py ('static',
\* 'policy', 'comprehensive' with or without --ci) and the combined command
\* of cli.py ('analyze'); --output names no file or one that cannot be
\* written.
RunnerArgs ==
    [command : {"static", "policy", "analyze"}, ci : {FALSE}, output : {None, "unwritable"}]
        \cup [command : {"comprehensive"}, ci : BOOLEAN, output : {None, "unwritable"}]

RunnerCheckovProcs ==
    {NotFound, Exited(0, EmptyOut)}
        \cup {Exited(0, JsonOut([kind |-> "dict",
                                 results |-> [failed_checks |-> <<s>>,
                                              passed_checks |-> <<>>]])) : s \in Severities}

\* The target directories of a run and their tools.
RunnerEnvironments ==
    {[dir_exists |-> FALSE], [dir_exists |-> TRUE, terraform_files |-> 0]}
        \cup [dir_exists : {TRUE}, terraform_files : {1}, validate : ValidateProcs,
              tflint : {TimedOut, Exited(0, EmptyOut)}, checkov : RunnerCheckovProcs]

\* The resource headers in the .tf files of a target directory.
RunnerTerraformDirs(env) ==
    IF env.dir_exists /\ env.terraform_files > 0
    THEN {OneFile(h) : h \in SeqsUpTo(ResourceTypes \X ResourceNames, 1)}
    ELSE {<<>>}

\* The policies directories of a run: missing, empty, or one file with one
\* policy.
RunnerPolicyDirs ==
    {NoDirectory, DirectoryOf(<<>>)}
        \cup {DirectoryOf(Named(<<p>>)) :
                  p \in {q \in PolicyConfigs(1) : q.resource_types = {"storage_bucket"}}}

\* Variant of AfterStatic in which an error result of the static phase
\* ends the run.
AfterStatic_abort(a, static_results) ==
    IF a.command = "static"
    THEN IF a.output # None THEN "raised" ELSE "summary"
    ELSE IF static_results.status = "error" THEN "raised" ELSE "static_done"

\* Where the run continues after the static phase: run_static_analysis
\* writes --output only when called for the 'static' command; the combined
\* commands go on to the policy phase whatever the static result is.
AfterStatic(a, static_results) ==
    IF a.command = "static"
    THEN IF a.output # None THEN "raised" ELSE "summary"
    ELSE "static_done"

\* A process started with a command line; nothing has run.
RunnerInit ==
    /\ environment \in RunnerEnvironments
    /\ terraform_dir \in RunnerTerraformDirs(environment)
    /\ policies_dir \in RunnerPolicyDirs
    /\ args \in RunnerArgs
    /\ policies = <<>>
    /\ terraform_resources = <<>>
    /\ report = NoReport
    /\ StaticIdle
    /\ combined = NoReport
    /\ exit_code = 0
    /\ ci_output = <<>>
    /\ junit_xml = NoFile
    /\ DynamicIdle
    /\ pc = "main"

\* run_static_analysis: analyze_terraform_files on the target directory.
StaticPhase ==
    /\ pc = "main"
    /\ args.command \in {"static", "analyze", "comprehensive"}
    /\ analysis' = analyze_terraform_files(environment)
    /\ results' = IF analysis'.status = "success" THEN Append(results, analysis')
                  ELSE results
    /\ tool_state' = IF analysis'.status = "success" THEN ToolStates(analysis')
                     ELSE tool_state
    /\ started' = IF analysis'.status = "success"
                  THEN [t \in Tools |-> started[t] + 1]
                  ELSE started
    /\ pc' = AfterStatic(args, analysis')
    /\ UNCHANGED <<complianceVars, environment, runnerVars, dynamicVars>>

\* run_policy_compliance: construct the ComplianceChecker, check_compliance.
PolicyPhase ==
    /\ \/ pc = "main" /\ args.command = "policy"
       \/ pc = "static_done"
    /\ policies' = _load_policies(policies_dir).policies
    /\ terraform_resources' = check_compliance(policies', terraform_dir).terraform_resources
    /\ report' = check_compliance(policies', terraform_dir).report
    /\ pc' = IF args.command = "policy"
             THEN IF args.output # None THEN "raised" ELSE "summary"
             ELSE "policy_done"
    /\ UNCHANGED <<policies_dir, terraform_dir, staticVars, runnerVars, dynamicVars>>

\* The results of the phases are combined and written to --output; open()
\* on a file that cannot be written raises.
CombinePhase ==
    /\ \/ pc = "policy_done" /\ ~Get(args, "include_dynamic", FALSE)
       \/ pc = "dynamic_done"
    /\ IF args.output # None
       THEN /\ combined' = combined
            /\ pc' = "raised"
       ELSE /\ combined' =
                   IF args.command = "comprehensive"
                   THEN CombinedResults(analysis, report, dynamic)
                   ELSE [static_analysis |-> analysis, policy_compliance |-> report]
            /\ pc' = "summary"
    /\ UNCHANGED <<complianceVars, staticVars, dynamicVars, args, exit_code, ci_output, junit_xml>>

\* The results are printed; with --ci run_ci_integration ends the process
\* with status 1 on a breaking change; otherwise main returns.
Summarise ==
    /\ pc = "summary"
    /\ IF args.command = "comprehensive" /\ args.ci
       THEN /\ junit_xml' = _save_junit_xml(combined)
            /\ ci_output' = set_exit_code_based_on_results(combined).annotations
            /\ exit_code' = set_exit_code_based_on_results(combined).exit_code
       ELSE /\ exit_code' = 0
            /\ UNCHANGED <<ci_output, junit_xml>>
    /\ pc' = "exited"
    /\ UNCHANGED <<complianceVars, staticVars, dynamicVars, args, combined>>

\* An exception reaches main's handler (sys.exit(1)) or, in cli.py, the
\* interpreter, which ends the process with status 1.
Abort ==
    /\ pc = "raised"
    /\ exit_code' = 1
    /\ pc' = "exited"
    /\ UNCHANGED <<complianceVars, staticVars, dynamicVars, args, combined, ci_output,
                   junit_xml>>

RunnerNext == StaticPhase \/ PolicyPhase \/ CombinePhase \/ Summarise \/ Abort

RunnerSpec == RunnerInit /\ [][RunnerNext]_vars

\* ------------------------------- a run with dynamic testing (main)
\* The command lines with dynamic testing: the 'dynamic' subcommand, and
\* 'comprehensive --include-dynamic --ci'.
DynamicArgs ==
    [command : {"dynamic"}, ci : {FALSE}, output : {None, "unwritable"},
     include_dynamic : {FALSE}]
        \cup [command : {"comprehensive"}, ci : {TRUE}, output : {None},
              include_dynamic : {TRUE}]

\* The target directories: missing, or one .tf file that terraform
\* validate accepts or rejects.
DynamicEnvironments ==
    {[dir_exists |-> FALSE]}
        \cup [dir_exists : {TRUE}, terraform_files : {1},
              validate : {Exited(0, JsonOut([valid |-> v, error_count |-> 0,
                                             warning_count |-> 0])) : v \in BOOLEAN},
              tflint : {Exited(0, EmptyOut)}, checkov : {Exited(0, EmptyOut)}]

\* The policies directories: missing, or one policy on storage buckets
\* with one rule.
DynamicPolicyDirs ==
    {NoDirectory}
        \cup {DirectoryOf(Named(<<p>>)) :
                  p \in {q \in PolicyConfigs(1) : /\ q.resource_types = {"storage_bucket"}
                                                   /\ Len(q.rules) = 1
                                                   /\ q.rules[1].required}}

\* A process started with a command line that asks for dynamic testing.
DynamicInit ==
    /\ environment \in DynamicEnvironments
    /\ args \in DynamicArgs
    /\ terraform_dir \in
           IF args.command = "comprehensive" /\ environment.dir_exists
           THEN {OneFile(<<<<"storage_bucket", "b1">>>>)} ELSE {<<>>}
    /\ policies_dir \in IF args.command = "comprehensive" THEN DynamicPolicyDirs
                        ELSE {NoDirectory}
    /\ cloud \in Clouds
    /\ policies = <<>>
    /\ terraform_resources = <<>>
    /\ report = NoReport
    /\ StaticIdle
    /\ combined = NoReport
    /\ exit_code = 0
    /\ ci_output = <<>>
    /\ junit_xml = NoFile
    /\ terraform_log = <<>>
    /\ dynamic = NoReport
    /\ pc = "main"

\* run_dynamic_testing: deployment, runtime tests, and no cleanup; a
\* successful terraform apply leaves the resources provisioned.  For the
\* 'dynamic' command the results are written to --output.
DynamicPhase ==
    /\ \/ pc = "main" /\ args.command = "dynamic"
       \/ pc = "policy_done" /\ Get(args, "include_dynamic", FALSE)
    /\ dynamic' = run_dynamic_testing(environment, cloud).results
    /\ terraform_log' = run_dynamic_testing(environment, cloud).log
    /\ cloud' = [cloud EXCEPT !.provisioned =
                     \E i \in DOMAIN terraform_log' :
                         terraform_log'[i] = "apply" /\ cloud.apply = 0]
    /\ pc' = IF args.command = "dynamic"
             THEN IF args.output # None THEN "raised" ELSE "summary"
             ELSE "dynamic_done"
    /\ UNCHANGED <<complianceVars, staticVars, runnerVars>>

DynamicNext ==
    StaticPhase \/ PolicyPhase \/ DynamicPhase \/ CombinePhase \/ Summarise \/ Abort

DynamicSpec == DynamicInit /\ [][DynamicNext]_vars

\* ------------------- run_policy_compliance calls on one ComprehensiveTestRunner
\* ComprehensiveTestRunner.run_policy_compliance on a runner whose
\* self.compliance_checker is None (constructed FALSE) or a ComplianceChecker
\* holding the given policies: the checker after the call and the results.
run_policy_compliance(constructed, pols, p_dir, t_dir) ==
    LET checker_policies == IF ~constructed THEN _load_policies(p_dir).policies ELSE pols
    IN  [policies |-> checker_policies,
         terraform_resources |-> check_compliance(checker_policies, t_dir).terraform_resources,
         results |-> check_compliance(checker_policies, t_dir).report]

\* A ComprehensiveTestRunner: self.compliance_checker is None.
SessionInit ==
    /\ policies = <<>>
    /\ policies_dir = NoDirectory
    /\ terraform_dir = <<>>
    /\ terraform_resources = <<>>
    /\ report = NoReport
    /\ environment = NoEnvironment
    /\ StaticIdle
    /\ RunnerIdle
    /\ DynamicIdle
    /\ pc = "new"

\* One call of run_policy_compliance(terraform_dir, policies_dir).
RunPolicyCompliance ==
    \E p_dir \in RunnerPolicyDirs,
       t_dir \in {OneFile(h) : h \in SeqsUpTo(ResourceTypes \X ResourceNames, 1)} :
        /\ policies_dir' = p_dir
        /\ terraform_dir' = t_dir
        /\ policies' = run_policy_compliance(pc = "constructed", policies, p_dir, t_dir).policies
        /\ terraform_resources' =
               run_policy_compliance(pc = "constructed", policies, p_dir, t_dir).terraform_resources
        /\ report' = run_policy_compliance(pc = "constructed", policies, p_dir, t_dir).results
        /\ pc' = "constructed"
        /\ UNCHANGED <<staticVars, runnerVars, dynamicVars>>

SessionNext == RunPolicyCompliance

SessionSpec == SessionInit /\ [][SessionNext]_vars

\* ----------------------------------------- one _parse_terraform_files call
\* The target directories of the extractor: at most MaxFiles .tf files.
ParseDirs == SeqsUpTo(TfFiles, MaxFiles)

\* A ComplianceChecker and a target directory; nothing is parsed yet.
ParseInit ==
    /\ terraform_dir \in ParseDirs
    /\ policies = <<>>
    /\ policies_dir = NoDirectory
    /\ terraform_resources = <<>>
    /\ report = NoReport
    /\ environment = NoEnvironment
    /\ StaticIdle
    /\ RunnerIdle
    /\ DynamicIdle
    /\ pc = "idle"

\* _parse_terraform_files(terraform_dir) returns the resources.
Parse ==
    /\ pc = "idle"
    /\ terraform_resources' = _parse_terraform_files(terraform_dir)
    /\ pc' = "parsed"
    /\ UNCHANGED <<policies, policies_dir, terraform_dir, report, staticVars, runnerVars,
                   dynamicVars>>

ParseNext == Parse

ParseSpec == ParseInit /\ [][ParseNext]_vars

\* ------------------------------------------------- properties (compliance)
Successful == report.status = "success"

\* The indices of the extracted resources whose type is in a policy's
\* resource_types, and of a policy's rules marked required.
Applicable(i) ==
    {j \in DOMAIN terraform_resources :
        terraform_resources[j].type \in policies[i].resource_types}

RequiredRules(i) == {r \in DOMAIN policies[i].rules : policies[i].rules[r].required}

\* The rules marked required that also name a property.
EffectiveRules(i) ==
    {r \in RequiredRules(i) : policies[i].rules[r].property \notin {None, ""}}

\* C1: with a non-empty policy set and a non-empty resource set,
\* check_compliance returns a successful report in which passed_policies +
\* failed_policies = total_policies = the number of loaded policies, and the
\* results list holds exactly one PolicyResult per loaded policy.
C1_PolicyCounts ==
    /\ (report # NoReport /\ policies # <<>> /\ terraform_resources # <<>>) => Successful
    /\ Successful =>
        /\ report.passed_policies + report.failed_policies = report.total_policies
        /\ report.total_policies = Len(policies)
        /\ Len(report.results) = Len(policies)
        /\ \A i \in 1..Len(policies) : report.results[i].policy_name = PolicyNames[i]

C1_Witness ==
    /\ Successful
    /\ report.total_policies = 2
    /\ report.passed_policies = 1
    /\ report.failed_policies = 1

\* C2 as stated: the reported compliance_score is passed/total*100 when
\* total_policies > 0, and a compliance_score of 0 is reported when no
\* policy is loaded.
C2_Original ==
    report # NoReport =>
        IF Len(policies) = 0
        THEN /\ "summary" \in DOMAIN report
             /\ report.summary.compliance_score = Fraction(0, 1)
        ELSE Successful =>
                report.summary.compliance_score.num * report.total_policies
                    = report.passed_policies * 100 * report.summary.compliance_score.den

\* C2 (amended): every compliance_score that check_compliance reports equals
\* passed_policies / total_policies * 100 with total_policies > 0, so it lies
\* in [0, 100]; with no policy loaded no score is reported: the result is
\* the error "No policies loaded" without a summary.
C2_Score ==
    /\ Successful =>
        LET score == report.summary.compliance_score
        IN  /\ report.total_policies > 0
            /\ score.den > 0
            /\ score.num * report.total_policies = report.passed_policies * 100 * score.den
            /\ 0 <= score.num
            /\ score.num <= 100 * score.den
    /\ (report # NoReport /\ Len(policies) = 0) =>
        /\ report.status = "error"
        /\ report.error_message = "No policies loaded"
        /\ "summary" \notin DOMAIN report

C2_Witness ==
    /\ Successful
    /\ report.passed_policies = 1
    /\ report.total_policies = 2
    /\ report.summary.compliance_score = [num |-> 50, den |-> 1]

\* C3 as stated: a policy with at least one rule marked required and at
\* least one applicable resource has status FAILED, whatever else the rule
\* contains.
C3_Original ==
    Successful =>
        \A i \in 1..Len(policies) :
            (RequiredRules(i) # {} /\ Applicable(i) # {})
                => report.results[i].status = "FAILED"

\* C3 (amended): a policy with at least one rule that names a property and
\* is marked required, and with at least one applicable resource, has status
\* FAILED; a rule without a property never produces a violation.
C3_RequiredFails ==
    Successful =>
        \A i \in 1..Len(policies) :
            (EffectiveRules(i) # {} /\ Applicable(i) # {})
                => report.results[i].status = "FAILED"

C3_Witness ==
    /\ Successful
    /\ \E i \in 1..Len(policies) :
        /\ EffectiveRules(i) # {}
        /\ Applicable(i) # {}
        /\ report.results[i].status = "FAILED"

\* How often a violation for resource address a and property p is listed.
Emitted(vs, a, p) == Cardinality({k \in DOMAIN vs : vs[k].resource = a /\ vs[k].rule = p})

Addresses == {terraform_resources[j].address : j \in DOMAIN terraform_resources}

\* The number of pairs (applicable resource with address a, rule of the set
\* rs with property p) of policy i.
Pairs(i, rs, a, p) ==
    Cardinality({j \in Applicable(i) : terraform_resources[j].address = a})
        * Cardinality({r \in rs : policies[i].rules[r].property = p})

\* C4 as stated: one Violation for every pair (applicable resource, rule
\* marked required) and none for any other pair.
C4_Original ==
    Successful =>
        \A i \in 1..Len(policies) :
            /\ Len(report.results[i].violations)
                   = Cardinality(Applicable(i)) * Cardinality(RequiredRules(i))
            /\ \A a \in Addresses, p \in PropertyNames :
                   Emitted(report.results[i].violations, a, p)
                       = Pairs(i, RequiredRules(i), a, p)

\* The scenario of C4: one policy "encryption" on storage_bucket with one
\* required rule on the property encryption, and one storage_bucket b1.
Scenario ==
    /\ policies = <<[name |-> "encryption", resource_types |-> {"storage_bucket"},
                     rules |-> <<[property |-> "encryption", required |-> TRUE]>>]>>
    /\ terraform_resources = <<Resource("storage_bucket", "b1")>>
    /\ report # NoReport

\* C4 (amended): for each policy the rule evaluator emits exactly one
\* Violation for every pair (applicable resource, rule that names a property
\* and is marked required) and none for any other pair; every Violation has
\* severity MEDIUM, applicable_resources counts the applicable resources and
\* violation_count the emitted violations; the scenario gives
\* applicable_resources = 1, violation_count = 1, FAILED, compliance_score 0.
C4_Violations ==
    /\ Successful =>
        \A i \in 1..Len(policies) :
            LET result == report.results[i]
            IN  /\ result.applicable_resources = Cardinality(Applicable(i))
                /\ result.violation_count = Len(result.violations)
                /\ Len(result.violations)
                       = Cardinality(Applicable(i)) * Cardinality(EffectiveRules(i))
                /\ \A a \in Addresses, p \in PropertyNames :
                       Emitted(result.violations, a, p) = Pairs(i, EffectiveRules(i), a, p)
                /\ \A k \in DOMAIN result.violations :
                       /\ result.violations[k].severity = "MEDIUM"
                       /\ result.violations[k].policy = PolicyNames[i]
                       /\ result.violations[k].resource_type \in policies[i].resource_types
    /\ Scenario =>
        /\ Successful
        /\ report.results[1].applicable_resources = 1
        /\ report.results[1].violation_count = 1
        /\ report.results[1].status = "FAILED"
        /\ report.summary.compliance_score = Fraction(0, 1)

\* Two applicable resources against two effective rules: four violations.
C4_Witness ==
    /\ Successful
    /\ \E i \in 1..Len(policies) :
        /\ Cardinality(Applicable(i)) = 2
        /\ Cardinality(EffectiveRules(i)) = 2
        /\ report.results[i].violation_count = 4

\* C5: in every PolicyResult the status is FAILED iff violation_count > 0
\* and PASSED otherwise; no other status is produced.
C5_StatusIffViolations ==
    Successful =>
        \A i \in DOMAIN report.results :
            /\ report.results[i].status \in {"PASSED", "FAILED"}
            /\ report.results[i].status = "FAILED" <=> report.results[i].violation_count > 0

C5_Witness ==
    /\ Successful
    /\ \E i, k \in DOMAIN report.results :
        /\ report.results[i].status = "FAILED"
        /\ report.results[i].violation_count = 1
        /\ report.results[k].status = "PASSED"
        /\ report.results[k].violation_count = 0

\* C6: a policy whose resource_types are disjoint from the types of all
\* extracted resources has applicable_resources = 0, no violations and
\* status PASSED, whatever its rules are.
C6_DisjointPasses ==
    Successful =>
        \A i \in 1..Len(policies) :
            (\A j \in DOMAIN terraform_resources :
                 terraform_resources[j].type \notin policies[i].resource_types)
                => /\ report.results[i].applicable_resources = 0
                   /\ report.results[i].violations = <<>>
                   /\ report.results[i].status = "PASSED"

C6_Witness ==
    /\ Successful
    /\ \E i \in 1..Len(policies) :
        /\ \A j \in DOMAIN terraform_resources :
               terraform_resources[j].type \notin policies[i].resource_types
        /\ EffectiveRules(i) # {}
        /\ report.results[i].status = "PASSED"

\* C7: in every successful report summary.overall_status is PASSED iff
\* failed_policies = 0 (no PolicyResult is FAILED) and FAILED otherwise.
C7_OverallStatus ==
    Successful =>
        /\ report.summary.overall_status \in {"PASSED", "FAILED"}
        /\ report.summary.overall_status = "PASSED" <=> report.failed_policies = 0
        /\ report.summary.overall_status = "PASSED"
               <=> \A i \in DOMAIN report.results : report.results[i].status # "FAILED"

\* One policy failed with several violations next to a policy that passed.
C7_Witness ==
    /\ Successful
    /\ report.summary.overall_status = "FAILED"
    /\ report.failed_policies = 1
    /\ report.passed_policies = 1
    /\ \E i \in DOMAIN report.results : report.results[i].violation_count > 1

\* ---------------------------------------------- properties (static analysis)
Analysed == analysis.status = "success"

Validator == analysis.results.terraform_validate
Linter == analysis.results.tflint
Scanner == analysis.results.checkov
Overall == analysis.summary.overall_status

\* A count of the scanner's severity histogram (0 when it has none).
Findings(severity) ==
    IF "summary" \in DOMAIN Scanner THEN Scanner.summary[severity] ELSE 0

\* C8 as stated: the combined status is TOOL_ERROR iff one of the three
\* tool results has a status other than success or not_found.
C8_Original ==
    Analysed =>
        (Overall = "TOOL_ERROR"
            <=> \E tool \in {Validator, Linter, Scanner} :
                    tool.status \notin {"success", "not_found"})

\* C8 (amended): the combined status is TOOL_ERROR iff the validator's
\* status is not success, or the linter's or the scanner's status is other
\* than success or not_found; a missing linter or scanner binary never by
\* itself makes the combined status TOOL_ERROR, a missing validator binary
\* always does.
C8_ToolError ==
    Analysed =>
        /\ Overall = "TOOL_ERROR"
               <=> \/ Validator.status # "success"
                   \/ Linter.status \notin {"success", "not_found"}
                   \/ Scanner.status \notin {"success", "not_found"}
        /\ Validator.status = "not_found" => Overall = "TOOL_ERROR"

C8_Witness ==
    /\ Analysed
    /\ Validator.status = "success"
    /\ Linter.status = "not_found"
    /\ Scanner.status = "not_found"
    /\ Overall # "TOOL_ERROR"

\* C9 as stated: when every tool is in a success or not_found state and the
\* validator reports valid = false, the combined status is VALIDATION_FAILED.
C9_Original ==
    Analysed =>
        ((/\ \A tool \in {Validator, Linter, Scanner} :
                 tool.status \in {"success", "not_found"}
          /\ ~Validator.valid)
            => Overall = "VALIDATION_FAILED")

\* C9 (amended): when the validator's status is success, the linter and the
\* scanner are each in a success or not_found state, and the validator
\* reports valid = false, the combined status is VALIDATION_FAILED whatever
\* the severity counts, warning counts and linter issues are; a validator
\* in state not_found gives TOOL_ERROR instead.
C9_ValidationFailed ==
    Analysed =>
        /\ (/\ Validator.status = "success"
            /\ Linter.status \in {"success", "not_found"}
            /\ Scanner.status \in {"success", "not_found"}
            /\ ~Validator.valid)
               => Overall = "VALIDATION_FAILED"
        /\ Overall = "VALIDATION_FAILED" => ~Validator.valid

\* An invalid input with a critical finding, a validator error and a linter
\* issue is still VALIDATION_FAILED.
C9_Witness ==
    /\ Analysed
    /\ Overall = "VALIDATION_FAILED"
    /\ Validator.error_count > 0
    /\ Findings("critical") > 0
    /\ Linter.total_issues > 0

\* C10: when no tool ended in a tool error and the validator reports valid
\* input, the combined status is CRITICAL_ISSUES iff the scanner's critical
\* count + high count + the validator's error_count > 0, also when medium/low
\* findings, validator warnings or linter issues are present.
C10_CriticalIssues ==
    Analysed =>
        ((/\ \A tool \in {Validator, Linter, Scanner} :
                 tool.status \in {"success", "not_found"}
          /\ Validator.valid)
            => (Overall = "CRITICAL_ISSUES"
                   <=> Findings("critical") + Findings("high") + Validator.error_count > 0))

\* One CRITICAL finding next to a medium finding, a validator warning and a
\* linter issue.
C10_Witness ==
    /\ Analysed
    /\ Validator.valid
    /\ Validator.error_count = 0
    /\ Validator.warning_count > 0
    /\ Findings("critical") = 1
    /\ Findings("high") = 0
    /\ Findings("medium") = 1
    /\ Linter.total_issues > 0
    /\ Overall = "CRITICAL_ISSUES"

\* C11: with no tool error, no validation failure and no critical or high
\* finding or validator error, the combined status is NEEDS_ATTENTION iff
\* validator warning_count + scanner medium + scanner low + linter
\* total_issues > 0, and PASSED otherwise; the status is always one of
\* PASSED, NEEDS_ATTENTION, CRITICAL_ISSUES, VALIDATION_FAILED, TOOL_ERROR.
C11_NeedsAttention ==
    Analysed =>
        /\ Overall \in {"PASSED", "NEEDS_ATTENTION", "CRITICAL_ISSUES",
                        "VALIDATION_FAILED", "TOOL_ERROR"}
        /\ (/\ Validator.status = "success"
            /\ Linter.status \in {"success", "not_found"}
            /\ Scanner.status \in {"success", "not_found"}
            /\ Validator.valid
            /\ Findings("critical") + Findings("high") + Validator.error_count = 0)
               => LET warnings == Validator.warning_count + Findings("medium")
                                      + Findings("low") + Linter.total_issues
                  IN  /\ Overall = "NEEDS_ATTENTION" <=> warnings > 0
                      /\ Overall = "PASSED" <=> warnings = 0

\* A linter issue alone gives NEEDS_ATTENTION.
C11_Witness ==
    /\ Analysed
    /\ Overall = "NEEDS_ATTENTION"
    /\ Linter.total_issues = 1
    /\ Validator.warning_count = 0
    /\ Findings("medium") + Findings("low") = 0

\* The bucket of a severity value: its name in lower case when it is one of
\* the four severities, medium otherwise.
ExpectedBucket(severity) ==
    CASE severity = "CRITICAL" -> "critical"
      [] severity = "High" -> "high"
      [] severity = "LOW" -> "low"
      [] OTHER -> "medium"

\* The failed checks in the document the scanner wrote (of its first
\* framework when there are several).
ScannedFailures ==
    LET out == environment.checkov.stdout
    IN  IF out.text # "json" THEN <<>>
        ELSE IF out.doc.kind = "dict" THEN out.doc.results.failed_checks
        ELSE IF out.doc.kind = "list" /\ out.doc.results # <<>>
             THEN out.doc.results[1].failed_checks
             ELSE <<>>

\* C12: in every successful scanner result each failed check is counted in
\* exactly one bucket (its severity compared case-insensitively, medium when
\* it is missing or unknown), so critical + high + medium + low =
\* failed_checks; passed checks are not counted in the histogram; and
\* total_checks = failed_checks + passed_checks.
C12_SeverityHistogram ==
    (Analysed /\ Scanner.status = "success") =>
        /\ Scanner.results.failed = ScannedFailures
        /\ Scanner.failed_checks = Len(Scanner.results.failed)
        /\ Scanner.passed_checks = Len(Scanner.results.passed)
        /\ \A b \in {"critical", "high", "medium", "low"} :
               Scanner.summary[b]
                   = Cardinality({k \in DOMAIN Scanner.results.failed :
                                      ExpectedBucket(Scanner.results.failed[k]) = b})
        /\ Scanner.summary.critical + Scanner.summary.high + Scanner.summary.medium
               + Scanner.summary.low = Scanner.failed_checks
        /\ Scanner.total_checks = Scanner.failed_checks + Scanner.passed_checks

\* An upper-case CRITICAL failed check next to a passed check of severity
\* CRITICAL: one critical finding, two checks.
C12_Witness ==
    /\ Analysed
    /\ Scanner.status = "success"
    /\ Scanner.results.failed = <<"CRITICAL">>
    /\ Scanner.results.passed = <<"CRITICAL">>
    /\ Scanner.summary.critical = 1
    /\ Scanner.total_checks = 2

\* The process wrote output that json.loads rejects.
Unparseable(proc) == proc.kind = "exit" /\ proc.stdout.text = "garbage"

\* C14 as stated: for each of the three tools, unparseable output ends in
\* parse_error, a missing binary in not_found, an expired timeout in timeout,
\* and the result then reports zero issues or checks.
C14_Original ==
    Analysed =>
        /\ \A t \in {"validate", "tflint", "checkov"} :
               LET proc == environment[t]
                   result == IF t = "validate" THEN Validator
                             ELSE IF t = "tflint" THEN Linter ELSE Scanner
               IN  /\ Unparseable(proc) => result.status = "parse_error"
                   /\ proc.kind = "not_found" => result.status = "not_found"
                   /\ proc.kind = "timeout" => result.status = "timeout"
        /\ (Unparseable(environment.validate)
                \/ environment.validate.kind \in {"not_found", "timeout"})
               => Validator.error_count = 0
        /\ (Unparseable(environment.tflint)
                \/ environment.tflint.kind \in {"not_found", "timeout"})
               => Linter.total_issues = 0
        /\ (Unparseable(environment.checkov)
                \/ environment.checkov.kind \in {"not_found", "timeout"})
               => Scanner.total_checks = 0

\* C14 (amended): for each tool a missing binary ends the invocation in
\* not_found and an expired timeout in timeout; unparseable output ends the
\* scanner in parse_error but the linter and the validator in error; in all
\* these cases the linter reports no issue and the scanner no check, while
\* the validator reports valid = false with error_count 1.
C14_ToolFailures ==
    Analysed =>
        /\ \A t \in {"validate", "tflint", "checkov"} :
               LET proc == environment[t]
                   result == IF t = "validate" THEN Validator
                             ELSE IF t = "tflint" THEN Linter ELSE Scanner
               IN  /\ Unparseable(proc)
                          => result.status = IF t = "checkov" THEN "parse_error" ELSE "error"
                   /\ proc.kind = "not_found" => result.status = "not_found"
                   /\ proc.kind = "timeout" => result.status = "timeout"
        /\ (Unparseable(environment.validate)
                \/ environment.validate.kind \in {"not_found", "timeout"})
               => /\ ~Validator.valid
                  /\ Validator.error_count = 1
                  /\ Validator.warning_count = 0
        /\ (Unparseable(environment.tflint)
                \/ environment.tflint.kind \in {"not_found", "timeout"})
               => /\ Linter.issues = <<>>
                  /\ Linter.total_issues = 0
        /\ (Unparseable(environment.checkov)
                \/ environment.checkov.kind \in {"not_found", "timeout"})
               => /\ Scanner.failed_checks = 0
                  /\ Scanner.passed_checks = 0
                  /\ Scanner.total_checks = 0
                  /\ "summary" \notin DOMAIN Scanner

\* All three tools wrote output that is no JSON.
C14_Witness ==
    /\ Analysed
    /\ Unparseable(environment.validate)
    /\ Unparseable(environment.tflint)
    /\ Unparseable(environment.checkov)
    /\ Validator.status = "error"
    /\ Linter.status = "error"
    /\ Scanner.status = "parse_error"

\* C15: a ComplianceChecker with no policies loaded answers every
\* check_compliance, whatever the target directory holds, with status error,
\* the error_message 'No policies loaded' and an empty results list, and it
\* parses nothing of the target directory.
C15_NoPolicies ==
    (policies = <<>> /\ report # NoReport) =>
        /\ report.status = "error"
        /\ report.error_message = "No policies loaded"
        /\ report.results = <<>>
        /\ terraform_resources = <<>>

\* No policies, and a target directory that holds resources.
C15_Witness ==
    /\ policies = <<>>
    /\ report # NoReport
    /\ terraform_dir # <<>> /\ terraform_dir[1].headers # <<>>
    /\ report.error_message = "No policies loaded"

\* The table a ComplianceChecker holds is the one its loader builds from its
\* directory.
TableLoaded == policies = _load_policies(policies_dir).policies

\* ---------------------------------------------- properties (policy loading)
\* C17: constructing a ComplianceChecker never raises, whatever the policies
\* directory holds, and on a directory that does not exist it yields an
\* empty policy set.
C17_LoadNeverRaises ==
    /\ pc # "raised"
    /\ (pc = "constructed" /\ ~policies_dir.exists) => policies = <<>>

\* A checker constructed on a missing directory.
C17_Witness ==
    /\ pc = "constructed"
    /\ ~policies_dir.exists
    /\ policies = <<>>

\* The named definitions in the policy files of a listing, in load order.
RECURSIVE Definitions(_)
Definitions(files) ==
    IF files = <<>> THEN <<>>
    ELSE LET file == Head(files)
             named == IF file.ext \in {"yml", "json"} /\ file.content.kind = "policies"
                      THEN SelectSeq(file.content.policies,
                                     LAMBDA p : "name" \in DOMAIN p /\ Truthy(p.name))
                      ELSE <<>>
         IN  named \o Definitions(Tail(files))

\* The definition of a name that comes last in load order.
LastDefinition(defs, name) ==
    defs[CHOOSE i \in DOMAIN defs :
            /\ defs[i].name = name
            /\ \A j \in DOMAIN defs : defs[j].name = name => j <= i]

\* No file of the listing makes the loader raise.
Loadable(files) == ~LoadFiles(<<>>, files).error

\* C18 as stated: after loading any listing of policy files the table holds
\* exactly one entry per distinct policy name occurring in the files, and
\* the entry of a name is its last-loaded definition.
C18_Original ==
    (pc = "constructed" /\ policies_dir.exists) =>
        LET defs == Definitions(policies_dir.files)
        IN  /\ {policies[i].name : i \in DOMAIN policies}
                   = {defs[j].name : j \in DOMAIN defs}
            /\ \A i, k \in DOMAIN policies :
                   policies[i].name = policies[k].name => i = k
            /\ \A i \in DOMAIN policies :
                   policies[i] = LastDefinition(defs, policies[i].name)

\* C18 where no file raises: there the table is as stated.
C18_WithoutErrors ==
    (pc = "constructed" /\ policies_dir.exists /\ Loadable(policies_dir.files)) =>
        LET defs == Definitions(policies_dir.files)
        IN  /\ {policies[i].name : i \in DOMAIN policies}
                   = {defs[j].name : j \in DOMAIN defs}
            /\ \A i, k \in DOMAIN policies :
                   policies[i].name = policies[k].name => i = k
            /\ \A i \in DOMAIN policies :
                   policies[i] = LastDefinition(defs, policies[i].name)

\* A name defined in two files with different definitions, loaded cleanly.
C18_Overwritten ==
    /\ pc = "constructed"
    /\ policies_dir.exists
    /\ Len(policies_dir.files) = 2
    /\ Loadable(policies_dir.files)
    /\ Len(Definitions(policies_dir.files)) = 2
    /\ Definitions(policies_dir.files)[1].name = Definitions(policies_dir.files)[2].name
    /\ Definitions(policies_dir.files)[1] # Definitions(policies_dir.files)[2]
    /\ policies = <<Definitions(policies_dir.files)[2]>>

\* A malformed file listed before a file that defines a policy.
C18_Lost ==
    /\ pc = "constructed"
    /\ policies_dir.exists
    /\ Len(policies_dir.files) = 2
    /\ policies_dir.files[1].ext = "yml"
    /\ policies_dir.files[1].content = Malformed
    /\ Len(Definitions(policies_dir.files)) = 1
    /\ policies = <<>>

\* ------------------------------------------- properties (tool invocations)
TerminalStatuses == {"success", "timeout", "not_found", "error", "parse_error"}

Terminal(tool) == tool_state[tool] \in TerminalStatuses

\* What holds in every state of a run.
RunInvariant ==
    /\ \A tool \in Tools :
           /\ tool_state[tool] \in {"NOT_STARTED", "RUNNING"} \cup TerminalStatuses
           /\ started[tool] = IF tool_state[tool] = "NOT_STARTED" THEN 0 ELSE 1
    /\ \A t1, t2 \in Tools :
           (tool_state[t1] = "RUNNING" /\ tool_state[t2] = "RUNNING") => t1 = t2
    /\ tool_state.tflint # "NOT_STARTED" => Terminal("validate")
    /\ tool_state.checkov # "NOT_STARTED" => Terminal("tflint")
    /\ (pc = "done" /\ analysis.status = "success") =>
           \A tool \in Tools : Terminal(tool) /\ started[tool] = 1
    /\ (pc = "done" /\ analysis.status = "success") =>
           tool_state = ToolStates(analysis)

\* What holds of every step of a run: a terminal status is final.
RunStep ==
    \A tool \in Tools :
        Terminal(tool) =>
            /\ tool_state'[tool] = tool_state[tool]
            /\ started'[tool] = started[tool]

EmptyDirectory == environment.dir_exists /\ environment.terraform_files = 0

\* C16: a scan of a directory with zero .tf files never yields a success
\* result: analyze_terraform_files returns status error with the message
\* 'No Terraform files found', starts no tool and appends nothing to its
\* results; check_compliance with policies loaded returns status error with
\* the message 'No Terraform resources found' and no score or counts.
C16_NoSuccessOnEmpty ==
    /\ (EmptyDirectory /\ analysis # NoReport) =>
           /\ analysis.status = "error"
           /\ analysis.error_message = "No Terraform files found"
           /\ results = <<>>
           /\ tool_state = NotStarted
           /\ \A tool \in Tools : started[tool] = 0
    /\ (EmptyDirectory /\ report # NoReport /\ policies # <<>>) =>
           /\ report.status = "error"
           /\ report.error_message = "No Terraform resources found"
           /\ report.results = <<>>
           /\ DOMAIN report = {"status", "error_message", "results"}

\* Both scans have run on a directory without .tf files, policies loaded.
C16_Witness ==
    /\ EmptyDirectory
    /\ policies # <<>>
    /\ analysis # NoReport
    /\ report # NoReport
    /\ analysis.status = "error"
    /\ report.status = "error"

\* C19: in run_comprehensive_analysis the policy phase runs after the static
\* phase whatever the static phase returned; a failure of the static phase
\* is a status inside its result; the combined report holds both phase
\* results, each with its own status.
C19_PhasesIndependent ==
    args.command = "comprehensive" =>
        /\ pc \in {"static_done", "policy_done", "summary", "exited"} =>
               /\ analysis # NoReport
               /\ analysis.status \in {"success", "error"}
        /\ pc \in {"policy_done", "summary", "exited"} =>
               /\ report # NoReport
               /\ report.status \in {"success", "error"}
        /\ (pc \in {"summary", "exited"} /\ args.output = None) => combined # NoReport
        /\ combined # NoReport =>
               /\ combined.static_analysis = analysis
               /\ combined.policy_compliance = report

\* A combined report whose static phase returned an error result.
C19_Witness ==
    /\ args.command = "comprehensive"
    /\ combined # NoReport
    /\ combined.static_analysis.status = "error"
    /\ combined.policy_compliance # NoReport

\* The findings the exit status is claimed to reflect.
FailedValidation ==
    /\ analysis # NoReport
    /\ analysis.status = "success"
    /\ ~analysis.summary.validation_passed

ScannerFinding ==
    /\ analysis # NoReport
    /\ analysis.status = "success"
    /\ analysis.results.checkov.status = "success"
    /\ analysis.results.checkov.summary.critical + analysis.results.checkov.summary.high > 0

PolicyFinding ==
    /\ report # NoReport
    /\ \E i \in DOMAIN report.results :
           \E k \in DOMAIN report.results[i].violations :
               report.results[i].violations[k].severity \in {"HIGH", "CRITICAL"}

\* An exception left a phase.
Errored == args.output # None

\* C20 as stated: a command-line run exits with status 1 whenever its
\* results hold a failed validation, a critical or high scanner finding or
\* a HIGH or CRITICAL policy violation, or an error was not caught, and
\* with status 0 in every other case.
C20_Original ==
    pc = "exited" =>
        (exit_code = 1 <=> (FailedValidation \/ ScannerFinding \/ PolicyFinding \/ Errored))

\* The exit status the code gives: 1 after an exception, and after a
\* 'comprehensive --ci' run whose validation did not pass; 0 otherwise.
C20_ActualExit ==
    pc = "exited" =>
        exit_code = IF Errored \/ (args.command = "comprehensive" /\ args.ci
                                     /\ FailedValidation)
                    THEN 1 ELSE 0

\* A 'comprehensive --ci' run with a valid configuration and a CRITICAL
\* scanner finding that exits with status 0.
C20_Witness ==
    /\ pc = "exited"
    /\ args = [command |-> "comprehensive", ci |-> TRUE, output |-> None]
    /\ ~FailedValidation
    /\ ScannerFinding
    /\ analysis.results.checkov.summary.critical = 1
    /\ exit_code = 0

\* ------------------------------------------ properties (results history)
\* latest_analysis as it describes one combined result.
Describes(latest_analysis, a) ==
    /\ latest_analysis.status = a.summary.overall_status
    /\ latest_analysis.total_issues = a.summary.total_issues
    /\ latest_analysis.validation_passed = a.summary.validation_passed

\* What get_results_summary answers in every state.
SummaryInvariant ==
    /\ (get_results_summary(results) = [message |-> "No analysis results available"])
           <=> results = <<>>
    /\ results # <<>> =>
           /\ get_results_summary(results).total_analyses = Len(results)
           /\ Describes(get_results_summary(results).latest_analysis, results[Len(results)])
    /\ \A i \in DOMAIN results : results[i].status = "success"

\* What one call does to the list and to the next summary.
HistoryStep ==
    /\ analysis'.status = "success" =>
           /\ results' = Append(results, analysis')
           /\ Describes(get_results_summary(results').latest_analysis, analysis')
    /\ analysis'.status = "error" =>
           /\ results' = results
           /\ get_results_summary(results') = get_results_summary(results)

\* C23: over any sequence of analyze_terraform_files calls the results list
\* starts empty, grows by exactly one entry per call that ran the tools and
\* is unchanged by a call that returns an early error; get_results_summary
\* answers 'No analysis results available' exactly when the list is empty,
\* otherwise total_analyses is the list length and latest_analysis
\* describes the most recently appended analysis.
C23_ResultsHistory ==
    (results = <<>> /\ analysis = NoReport) /\ []SummaryInvariant /\ [][HistoryStep]_vars

\* Two different analyses were appended and a call on a directory without
\* .tf files followed.
C23_Witness ==
    /\ Len(results) = 2
    /\ results[1].summary.overall_status # results[2].summary.overall_status
    /\ analysis.status = "error"
    /\ analysis.error_message = "No Terraform files found"
    /\ get_results_summary(results).total_analyses = 2

\* ------------------------------------------ properties (overall summary)
Summarised == combined # NoReport /\ "summary" \in DOMAIN combined

\* C27 as stated: the comprehensive summary's overall_status is PASSED only
\* if every phase ran and passed: never when the static or the policy
\* result has status error, when validation_passed is false, or when a
\* policy failed.
C27_Original ==
    (Summarised /\ combined.summary.overall_status = "PASSED") =>
        /\ combined.static_analysis.status # "error"
        /\ combined.policy_compliance.status # "error"
        /\ combined.static_analysis.summary.validation_passed
        /\ combined.policy_compliance.failed_policies = 0

\* What the code guarantees: PASSED exactly when no policy failed and the
\* static result reports no issue (an error result reports none).
C27_PassedMeans ==
    Summarised =>
        (combined.summary.overall_status = "PASSED"
            <=> /\ Get(combined.policy_compliance, "failed_policies", 0) = 0
                /\ Get(Get(combined.static_analysis, "summary", EmptyDict),
                       "total_issues", 0) = 0)

\* Neither phase could run and the summary says PASSED.
C27_Witness ==
    /\ Summarised
    /\ combined.static_analysis.status = "error"
    /\ combined.policy_compliance.status = "error"
    /\ combined.summary.overall_status = "PASSED"

\* C28 as stated: in every summary of _calculate_overall_summary
\* passed_checks + failed_checks = total_checks and success_rate lies
\* between 0 and 100.
C28_Original ==
    Summarised =>
        /\ combined.summary.passed_checks + combined.summary.failed_checks
               = combined.summary.total_checks
        /\ combined.summary.success_rate.num >= 0
        /\ combined.summary.success_rate.num <= 100 * combined.summary.success_rate.den

\* One policy that passed and a static analysis without issues: two
\* passed checks of one, a success rate of 200.
C28_Witness ==
    /\ Summarised
    /\ combined.static_analysis.status = "success"
    /\ combined.static_analysis.summary.total_issues = 0
    /\ combined.policy_compliance.status = "success"
    /\ combined.summary.total_checks = 1
    /\ combined.summary.passed_checks = 2
    /\ combined.summary.failed_checks = 0
    /\ combined.summary.success_rate = Fraction(200, 1)

\* ------------------------------------------- properties (CI integration)
SuccessNotice == Annotation("notice", "All tests passed successfully!")

Annotated(a) == \E i \in DOMAIN ci_output : ci_output[i] = a

\* The CI integration has processed the combined results.
Integrated == pc = "exited" /\ ci_output # <<>>

\* C30 as stated: for every result of run_comprehensive_analysis the notice
\* 'All tests passed successfully!' is emitted only when
\* summary.overall_status is PASSED; for NEEDS_ATTENTION or
\* CRITICAL_FAILURE a warning or an error is emitted and never the notice.
C30_Original ==
    Integrated =>
        /\ Annotated(SuccessNotice) => combined.summary.overall_status = "PASSED"
        /\ combined.summary.overall_status \in {"NEEDS_ATTENTION", "CRITICAL_FAILURE"} =>
               /\ \E i \in DOMAIN ci_output : ci_output[i].level \in {"warning", "error"}
               /\ ~Annotated(SuccessNotice)

\* What the code guarantees: an error for a breaking change, the success
\* notice for every other result (no summary has overall_status FAILED).
C30_ActualAnnotations ==
    Integrated =>
        /\ combined.summary.overall_status # "FAILED"
        /\ ci_output = IF check_for_breaking_changes(combined)
                       THEN <<Annotation("error", "Critical issues found - failing CI build")>>
                       ELSE <<SuccessNotice>>

\* A failed policy, a passed validation, and the success notice.
C30_Witness ==
    /\ Integrated
    /\ combined.summary.overall_status = "NEEDS_ATTENTION"
    /\ combined.policy_compliance.status = "success"
    /\ combined.policy_compliance.failed_policies = 1
    /\ Annotated(SuccessNotice)
    /\ exit_code = 0

\* ------------------------------------------ properties (dynamic testing)
\* run_dynamic_testing has returned.
Tested == dynamic # NoReport

\* The steps of the provisioning phase, in order.
DeploySteps == <<"init", "plan", "apply", "show">>

\* The first of init, plan, apply that fails in the environment (0: none).
FirstFailure ==
    IF cloud.init # 0 THEN 1 ELSE IF cloud.plan # 0 THEN 2 ELSE IF cloud.apply # 0 THEN 3 ELSE 0

\* The entry is in the log of commands and calls.
Logged(entry) == \E i \in DOMAIN terraform_log : terraform_log[i] = entry

C22_Order ==
    Tested /\ environment.dir_exists =>
        IF FirstFailure = 0
        THEN SubSeq(terraform_log, 1, 4) = DeploySteps
        ELSE /\ terraform_log = SubSeq(DeploySteps, 1, FirstFailure)
             /\ dynamic.deployment.status = "failed"
             /\ dynamic.runtime_tests.status = "skipped"
             /\ dynamic.summary.overall_status = "FAILED"

C22_Kept ==
    /\ pc = "dynamic_done" => analysis # NoReport /\ report # NoReport
    /\ pc \in {"summary", "exited"} /\ Get(args, "include_dynamic", FALSE) =>
           /\ combined.static_analysis = analysis
           /\ combined.policy_compliance = report
           /\ combined.dynamic_testing = dynamic

C22_Returned ==
    DynamicPhase =>
        /\ analysis' = analysis /\ report' = report
        /\ pc' = "raised" => args.command = "dynamic" /\ args.output # None

\* C22: the provisioning steps run in the order init, plan, apply, state
\* read; when init, plan or apply fails, the log ends with the failed step
\* (no later step, no runtime test), the dynamic result has a failed
\* deployment and overall_status FAILED, and the failure is a returned
\* value: the phase raises only for an --output file that cannot be
\* written, and a comprehensive run keeps its static and policy results.
C22_ProvisioningOrder == []C22_Order /\ []C22_Kept /\ [][C22_Returned]_vars

\* A comprehensive run whose terraform plan failed, after it has ended.
C22_Witness ==
    /\ pc = "exited"
    /\ args.command = "comprehensive"
    /\ cloud.init = 0 /\ cloud.plan # 0
    /\ terraform_log = <<"init", "plan">>
    /\ combined.dynamic_testing.summary.overall_status = "FAILED"
    /\ combined.dynamic_testing.runtime_tests.status = "skipped"
    /\ combined.static_analysis.status = "success"
    /\ combined.policy_compliance.status = "success"

\* The runtime checks were run (deployment information was found).
ChecksRun == Tested /\ dynamic.runtime_tests.status \in {"success", "partial_failure"}

\* The number of runtime checks whose AWS call raises.
RaisingChecks ==
    Cardinality({k \in {"vpc", "ec2", "s3", "sg"} : cloud[k] = "raises"})

\* C21 as stated: a runtime check that raises is counted in failed_tests,
\* so the runtime overall_status is FAILED, and the remaining checks are
\* still run.
C21_Original ==
    ChecksRun /\ RaisingChecks > 0 =>
        /\ dynamic.runtime_tests.failed_tests >= RaisingChecks
        /\ dynamic.runtime_tests.summary.overall_status = "FAILED"
        /\ \A call \in {"describe_vpcs", "describe_instances", "list_buckets",
                        "describe_security_groups"} : Logged(call)

\* What the code guarantees: every check is run, and a check that raises
\* gives one test with status "error", counted in total_tests only.
C21_CapturedAsError ==
    ChecksRun =>
        /\ \A call \in {"describe_vpcs", "describe_instances", "list_buckets",
                        "describe_security_groups"} : Logged(call)
        /\ CountStatus(dynamic.runtime_tests.test_results, "error") = RaisingChecks
        /\ dynamic.runtime_tests.failed_tests
               = CountStatus(dynamic.runtime_tests.test_results, "failed")
        /\ dynamic.runtime_tests.total_tests = Len(dynamic.runtime_tests.test_results)

\* describe_vpcs raises, every other check passes: overall_status PASSED.
C21_Witness ==
    /\ ChecksRun
    /\ cloud.vpc = "raises"
    /\ dynamic.runtime_tests.test_results[1] = Test("vpc_configuration", "error")
    /\ dynamic.runtime_tests.failed_tests = 0
    /\ dynamic.runtime_tests.status = "success"
    /\ dynamic.summary.overall_status = "PASSED"

\* C26 as stated: whenever the deployment succeeded, terraform destroy is
\* run after the runtime tests, no run ends with provisioned resources
\* left in place, and the cleanup status is that of an executed destroy.
C26_Original ==
    Tested /\ dynamic.deployment.status = "success" =>
        /\ terraform_log # <<>> /\ terraform_log[Len(terraform_log)] = "destroy"
        /\ ~cloud.provisioned
        /\ dynamic.cleanup.status \in {"success", "failed", "error"}

\* What the code does: no destroy is run and the cleanup is "skipped".
C26_NeverDestroyed ==
    Tested => ~Logged("destroy") /\ dynamic.cleanup.status = "skipped"

\* A run that has ended after a successful deployment.
C26_Witness ==
    /\ pc = "exited"
    /\ dynamic.deployment.status = "success"
    /\ cloud.provisioned
    /\ dynamic.cleanup.status = "skipped"
    /\ ~Logged("destroy")

\* The analysis phases present in the results given to the CI integration.
PhasesPresent ==
    {k \in {"static_analysis", "policy_compliance", "dynamic_testing"} : k \in DOMAIN combined}

RECURSIVE SumTests(_)
SumTests(suites) == IF suites = <<>> THEN 0 ELSE Head(suites).tests + SumTests(Tail(suites))

RECURSIVE SumFailures(_)
SumFailures(suites) ==
    IF suites = <<>> THEN 0 ELSE Head(suites).failures + SumFailures(Tail(suites))

\* C24 as stated: the JUnit XML contains exactly one test suite for each
\* analysis phase present in the results, and the tests and failures of the
\* root element are the sums over the suites.
C24_Original ==
    junit_xml # NoFile =>
        /\ Len(junit_xml.testsuites) = Cardinality(PhasesPresent)
        /\ junit_xml.tests = SumTests(junit_xml.testsuites)
        /\ junit_xml.failures = SumFailures(junit_xml.testsuites)

\* What the code guarantees: suites for the static analysis and the policy
\* compliance only, and root totals that are their sums.
C24_TwoSuites ==
    junit_xml # NoFile =>
        /\ [i \in DOMAIN junit_xml.testsuites |-> junit_xml.testsuites[i].name]
               = <<"StaticAnalysis", "PolicyCompliance">>
        /\ junit_xml.tests = SumTests(junit_xml.testsuites)
        /\ junit_xml.failures = SumFailures(junit_xml.testsuites)

\* A report written for results that hold a dynamic testing phase with
\* runtime tests.
C24_Witness ==
    /\ junit_xml # NoFile
    /\ "dynamic_testing" \in DOMAIN combined
    /\ combined.dynamic_testing.summary.overall_status = "FAILED"
    /\ combined.dynamic_testing.runtime_tests.status = "partial_failure"
    /\ Len(junit_xml.testsuites) = 2

\* ------------------------------- properties (run_policy_compliance calls)
\* C29 as stated: each call of run_policy_compliance evaluates the policy
\* set loaded from the policies_dir passed to that call.
C29_Original ==
    pc = "constructed" =>
        /\ policies = _load_policies(policies_dir).policies
        /\ report = check_compliance(_load_policies(policies_dir).policies,
                                     terraform_dir).report

\* What the code does: the policies of the first call's directory answer
\* every later call.
C29_FirstDirectory ==
    pc = "constructed" => policies' = policies /\ pc' = "constructed"

C29_Cached == [][C29_FirstDirectory]_vars

\* A call on a directory holding a policy, answered by a checker that was
\* constructed on a directory without policies.
C29_Witness ==
    /\ pc = "constructed"
    /\ policies = <<>>
    /\ _load_policies(policies_dir).policies # <<>>
    /\ report.status = "error"

\* ------------------------------------------ properties (resource extractor)
\* The number of headers in the readable files among the first k files.
RECURSIVE HeadersBefore(_, _)
HeadersBefore(dir, k) ==
    IF k = 0 THEN 0
    ELSE HeadersBefore(dir, k - 1) + IF dir[k].readable THEN Len(dir[k].headers) ELSE 0

\* C25: the extractor returns one entry for every header of every readable
\* file, in the order of the files, with address type.name; a header
\* declared several times gives one entry per occurrence, and a file that
\* cannot be read gives no entry and leaves the entries of the other files.
C25_Extractor ==
    pc = "parsed" =>
        /\ Len(terraform_resources) = HeadersBefore(terraform_dir, Len(terraform_dir))
        /\ \A f \in DOMAIN terraform_dir :
               terraform_dir[f].readable =>
                   \A j \in DOMAIN terraform_dir[f].headers :
                       LET entry == terraform_resources[HeadersBefore(terraform_dir, f - 1) + j]
                       IN  /\ entry.type = terraform_dir[f].headers[j][1]
                           /\ entry.name = terraform_dir[f].headers[j][2]
                           /\ entry.address = <<entry.type, entry.name>>

\* An unreadable file followed by a file that declares one resource twice:
\* two equal entries.
C25_Witness ==
    /\ pc = "parsed"
    /\ Len(terraform_dir) = 2
    /\ ~terraform_dir[1].readable
    /\ terraform_dir[2].readable /\ Len(terraform_dir[2].headers) = 2
    /\ Len(terraform_resources) = 2
    /\ terraform_resources[1] = terraform_resources[2]

====
